---- MODULE Spec2Model ----
(***************************************************************************)
(* A model of bld (bldlib): the Project object with its directories, the   *)
(* TimeReport ledger, the build orchestration of Project.build with the    *)
(* module dispatch of Project._call, and the subprocess runner of          *)
(* bldlib/command.py with its two reader threads.                          *)
(*                                                                         *)
(* Four specifications share the variables; each one moves its own part of *)
(* the state and leaves the rest alone:                                    *)
(*   SpecTimeReport  any sequence of TimeReport.add calls                  *)
(*   SpecDirs        a constructed Project and its directory setters       *)
(*   SpecBuild       one or more invocations of Project.build              *)
(*   SpecCommand     one invocation of command.run                         *)
(***************************************************************************)
EXTENDS Integers, Sequences, FiniteSets, TLC

VARIABLES
    time_report,   \* TimeReport: [steps: Seq(name), records: name -> elapsed]
    addLog,        \* history: the <<name, elapsed>> of every TimeReport.add call
    root_dir,      \* Project._root_dir
    build_dir,     \* Project._build_dir
    install_dir,   \* Project._install_dir
    dist_dir,      \* Project._dist_dir
    report_dir,    \* Project._report_dir
    lastSet,       \* history: the last assignment to a directory property
    cwd,           \* the process working directory (os.getcwd())
    hooks,         \* sys.modules: module name -> the hook names it defines
    dirs,          \* the directories that exist (os.path.exists)
    files,         \* the files written: path -> content
    pc,            \* Project.build: the position of the invocation
    args,          \* Project.build: the args parameter, until its last read
    sel_modules,   \* Project.build: the modules parameter
    func_name,     \* Project.build: the hook name chosen
    idx,           \* Project._call: the position of the loop in modules
    old_dir,       \* Project.chdir (as entered by build): old_dir
    begin,         \* Project.build: begin
    elapsed,       \* Project.build: elapsed
    status,        \* Project.build: status ("unset" while unbound)
    exc,           \* the exception in flight (NoExc when none)
    now,           \* timeit.default_timer()
    log,           \* the calls made to the logger during the invocation
    trace,         \* history: the operations of the invocation, in order
    result,        \* how the last invocation of build ended
    nBuilds,       \* history: invocations of build so far
    hookOps,       \* history: commands run by the current hook
    raised,        \* history: the exception the try block of build ended with
    scopes,        \* the step and chdir scopes the hook is in, innermost last
    entered,       \* history: the names of the step scopes, as entered
    exited,        \* history: the names of the step scopes, as left
    nScopes,       \* history: scopes entered so far
    plan,          \* the child: the lines (bytes) it writes to each stream
    emitted,       \* the child: how many lines of plan it has written
    child,         \* the child: "none", "running" or "exited"
    returncode,    \* process.returncode
    pipe,          \* the bytes written to each stream and not yet read
    eof,           \* whether each stream has reached end-of-file
    rd,            \* the reader thread of each stream: [pc, lines, k, line]
    buffer,        \* the shared io.StringIO: [closed, value]
    ppc,           \* command.run: the position of the parent
    closed,        \* whether the parent has closed its handle of each stream
    spawned,       \* history: the children subprocess.Popen has created
    ctor_args,     \* Project.__init__: the arguments
    project,       \* the outcome of Project.__init__, and the attributes set
    imports,       \* history: the modules import_module was called with
    cexc           \* command.run: the exception it raises (NoExc when none)

trVars  == <<time_report, addLog>>
dirVars == <<root_dir, build_dir, install_dir, dist_dir, report_dir, lastSet>>
buildVars == <<hooks, dirs, files, pc, args, sel_modules, func_name, idx,
               old_dir, begin, elapsed, status, exc, now, log, trace, result,
               nBuilds, hookOps, raised>>
cmdVars == <<plan, emitted, child, returncode, pipe, eof, rd, buffer, ppc,
             spawned, closed, cexc>>
ctorVars == <<ctor_args, project, imports>>
scopeVars == <<scopes, entered, exited, nScopes>>

-----------------------------------------------------------------------------
(* Bounds *)

MaxAdds == 3          \* TimeReport.add calls in SpecTimeReport
MaxBuilds == 2        \* invocations of Project.build on one Project
MaxHookOps == 1       \* commands one hook runs
MaxTime == 1          \* the clock stops advancing at MaxTime
MaxLines == 2         \* lines the child writes to one stream
MaxScopes == 2        \* step and chdir scopes the hooks of one run enter

-----------------------------------------------------------------------------
(* Paths.  A path is a sequence of components; an absolute path starts     *)
(* with the component "/".  The file system holds no symbolic links, so    *)
(* os.path.realpath is abspath followed by normpath.                       *)

isabs(p) == Len(p) > 0 /\ p[1] = "/"

join(a, b) == IF isabs(b) THEN b ELSE a \o b

RECURSIVE normparts(_, _)
normparts(done, rest) ==
    IF rest = <<>> THEN done
    ELSE LET c == Head(rest) IN
         IF c = "." THEN normparts(done, Tail(rest))
         ELSE IF c = ".."
              THEN normparts(IF Len(done) > 1
                             THEN SubSeq(done, 1, Len(done) - 1)
                             ELSE done, Tail(rest))
              ELSE normparts(Append(done, c), Tail(rest))

realpath(p) ==
    LET q == IF isabs(p) THEN p ELSE cwd \o p
    IN  normparts(<<"/">>, Tail(q))

-----------------------------------------------------------------------------
(* TimeReport *)

StepNames == {"build", "install", "total"}
Durations == {1, 2}

NoRecords == [n \in {} |-> 0]

TimeReport_init == [steps |-> <<>>, records |-> NoRecords]

\* TimeReport_add with one column per name: a name already in _steps keeps
\* its position and only its value changes.
TimeReport_add_once(tr, name, value) ==
    [steps   |-> IF \E i \in 1..Len(tr.steps) : tr.steps[i] = name
                 THEN tr.steps ELSE Append(tr.steps, name),
     records |-> [n \in (DOMAIN tr.records) \cup {name} |->
                     IF n = name THEN value ELSE tr.records[n]]]

\* TimeReport.add: the name is appended to _steps on every call and the
\* value stored in the _records dict under the name.
TimeReport_add(tr, name, value) ==
    [steps   |-> Append(tr.steps, name),
     records |-> [n \in (DOMAIN tr.records) \cup {name} |->
                     IF n = name THEN value ELSE tr.records[n]]]

\* TimeReport.save_csv: the header row is _steps; the data row holds, for
\* each column of the header, the value of _records under that name.
TimeReport_csv(tr) ==
    [header |-> tr.steps,
     row    |-> [i \in 1..Len(tr.steps) |-> tr.records[tr.steps[i]]]]

TRInit ==
    /\ time_report = TimeReport_init
    /\ addLog = <<>>

TRAdd ==
    \E name \in StepNames, value \in Durations :
        /\ Len(addLog) < MaxAdds
        /\ time_report' = TimeReport_add(time_report, name, value)
        /\ addLog' = Append(addLog, <<name, value>>)

-----------------------------------------------------------------------------
(* Project directories *)

ProjectDir == <<"/", "proj">>

\* BUILD_DIR of the project definition: absent, or a path relative to the
\* project directory.
BuildDirDefs == {<<"build">>, <<"..", "build">>}

\* Values assigned to the directory properties.
DirArgs == {<<"out">>, <<"..", "out">>, <<"/", "tmp", "out">>, <<"build">>}

\* load_project: the build directory handed to the constructor.
load_build_dir(project_dir, def) == realpath(join(project_dir, def))

\* No directory property has been assigned.
NoAssignment == [prop |-> "none", value |-> <<>>, build |-> <<>>]

\* Project.__init__, the directories (lines 100-108).
ProjectInit(root, build) ==
    /\ lastSet = NoAssignment
    /\ root_dir = root
    /\ build_dir = build
    /\ install_dir = realpath(join(build, <<"release">>))
    /\ dist_dir = realpath(join(build, <<"dist">>))
    /\ report_dir = realpath(join(build, <<"report">>))

\* The build_dir setter.
set_build_dir(value) ==
    IF isabs(value) THEN realpath(value) ELSE realpath(join(root_dir, value))

\* set_install_dir with a relative path resolved against the root directory.
set_install_dir_under_root(value) ==
    IF isabs(value) THEN realpath(value) ELSE realpath(join(root_dir, value))

\* The install_dir and dist_dir setters.
set_install_dir(value) ==
    IF isabs(value) THEN realpath(value) ELSE realpath(join(build_dir, value))

set_dist_dir(value) ==
    IF isabs(value) THEN realpath(value) ELSE realpath(join(build_dir, value))


\* SetBuildDir that moves report_dir along with the build directory.
SetBuildDir_MovesReportDir ==
    \E value \in DirArgs :
        /\ build_dir' = set_build_dir(value)
        /\ report_dir' = realpath(join(set_build_dir(value), <<"report">>))
        /\ lastSet' = [prop |-> "build_dir", value |-> value, build |-> build_dir]
        /\ UNCHANGED <<root_dir, install_dir, dist_dir>>

\* Lines 163-171, 180-188 and 197-205: an assignment to one of the three
\* properties.
SetBuildDir ==
    \E value \in DirArgs :
        /\ build_dir' = set_build_dir(value)
        /\ lastSet' = [prop |-> "build_dir", value |-> value, build |-> build_dir]
        /\ UNCHANGED <<root_dir, install_dir, dist_dir, report_dir>>

SetInstallDir ==
    \E value \in DirArgs :
        /\ install_dir' = set_install_dir(value)
        /\ lastSet' = [prop |-> "install_dir", value |-> value,
                       build |-> build_dir]
        /\ UNCHANGED <<root_dir, build_dir, dist_dir, report_dir>>

SetDistDir ==
    \E value \in DirArgs :
        /\ dist_dir' = set_dist_dir(value)
        /\ lastSet' = [prop |-> "dist_dir", value |-> value, build |-> build_dir]
        /\ UNCHANGED <<root_dir, build_dir, install_dir, report_dir>>

-----------------------------------------------------------------------------
(* Exceptions.  An exception is its class and its args tuple.  "Exception" *)
(* stands for any class derived from Exception other than the three the    *)
(* orchestration names (OSError, AttributeError, ValueError, ...), and     *)
(* "BaseException" for one that is not derived from Exception (SystemExit, *)
(* KeyboardInterrupt).                                                     *)

\* A message: what it is about and up to two names it carries.
Msg(kind, a, b) == <<kind, a, b>>

NoExc == [type |-> "none", args |-> <<>>]

Exc(type, a) == [type |-> type, args |-> a]

\* except (ProjectException, ModuleException, CommandException)
Recognized == {"ProjectException", "ModuleException", "CommandException"}

\* except Exception
IsException(e) == e.type \notin {"none", "BaseException"}

\* OSError(errno, strerror) of a failed os.makedirs or open.
OSError ==
    Exc("Exception", <<Msg("errno", "13", ""), Msg("text", "Permission denied", "")>>)

\* What a module hook may raise by itself.
HookRaises ==
    {Exc("ProjectException", <<Msg("text", "bad project", "")>>),
     Exc("ModuleException", <<Msg("text", "bad module", "")>>),
     Exc("Exception", <<Msg("text", "boom", "")>>),
     Exc("Exception", <<>>),
     Exc("BaseException", <<Msg("text", "exit", "")>>)}

-----------------------------------------------------------------------------
(* format_duration *)

Abs(x) == IF x < 0 THEN -x ELSE x

\* '%s%d:%02d:%02d' of the sign, hours, minutes and seconds.
format_duration(duration) ==
    [negative |-> duration < 0,
     hours    |-> Abs(duration) \div 3600,
     minutes  |-> (Abs(duration) % 3600) \div 60,
     seconds  |-> (Abs(duration) % 3600) % 60]

-----------------------------------------------------------------------------
(* Project.build *)

Modules == {"client", "server", "tools"}
HookNames == {"clean", "build", "install", "package"}

\* What a loaded module defines: every hook, or clean and package only.
HookSets == {HookNames, {"clean", "package"}}

\* The module lists handed to build.
ModuleLists ==
    {<<"client">>, <<"client", "server">>, <<"client", "server", "tools">>,
     <<"server", "server">>}

\* args.release and args.tag: absent ("none"), the string the command-line
\* parser produces ("str"), or an object with a value attribute ("obj").
ArgKinds == {"none", "str", "obj"}

Flags(c, b, i, p) == [clean |-> c, build |-> b, install |-> i, package |-> p]

ArgsSet ==
    {[release |-> "none", tag |-> "none", flags |-> Flags(c, b, i, p)] :
        c \in BOOLEAN, b \in BOOLEAN, i \in BOOLEAN, p \in BOOLEAN}
    \cup
    {[release |-> r, tag |-> t, flags |-> Flags(c, FALSE, FALSE, FALSE)] :
        r \in ArgKinds, t \in ArgKinds, c \in BOOLEAN}

NoArgs == [release |-> "none", tag |-> "none",
           flags |-> Flags(FALSE, FALSE, FALSE, FALSE)]

\* A call to the logger: the method called, the message, and the formatted
\* duration a status line carries.
NoDuration == [negative |-> FALSE, hours |-> 0, minutes |-> 0, seconds |-> 0]

LogEntry(level, msg) == [level |-> level, msg |-> msg, duration |-> NoDuration]

NoResult == [kind |-> "none", exc |-> NoExc]

\* select_func with the flags tried from the last one to the first.
select_func_last_flag(f) ==
    IF f.package THEN "package"
    ELSE IF f.install THEN "install"
    ELSE IF f.build THEN "build"
    ELSE IF f.clean THEN "clean"
    ELSE "build"

\* The hook name build picks from the flags (lines 269-279).
select_func(f) ==
    IF f.clean THEN "clean"
    ELSE IF f.build THEN "build"
    ELSE IF f.install THEN "install"
    ELSE IF f.package THEN "package"
    ELSE "build"

\* Project.chdir on entry: the directory the process is in afterwards.
chdir_enter(dir_path, old) == IF dir_path # old THEN dir_path ELSE old

\* chdir_exit that leaves the process where the wrapped work left it.
chdir_exit_stays(dir_path, old, cur) == cur

\* Project.chdir on exit (the finally clause): the directory the process is in
\* afterwards, given the one it is in.
chdir_exit(dir_path, old, cur) == IF dir_path # old THEN old ELSE cur

\* os.makedirs: the directory and its missing ancestors exist afterwards.
makedirs_in(ds, p) == ds \cup {SubSeq(p, 1, k) : k \in 1..Len(p)}

makedirs(p) == makedirs_in(dirs, p)

\* No invocation of build is in progress.
BuildIdle ==
    /\ pc = "idle"
    /\ args = NoArgs
    /\ sel_modules = <<>>
    /\ func_name = "none"
    /\ idx = 0
    /\ old_dir = <<>>
    /\ begin = 0
    /\ elapsed = 0
    /\ status = "unset"
    /\ exc = NoExc
    /\ log = <<>>
    /\ trace = <<>>
    /\ result = NoResult
    /\ hookOps = 0
    /\ raised = NoExc
    /\ scopes = <<>>

\* line 259-260: with self.chdir(self.root_dir): begin = default_timer()
BuildCall ==
    \E a \in ArgsSet, mods \in ModuleLists :
        /\ pc = "idle"
        /\ \A i \in 1..Len(mods) : mods[i] \in DOMAIN hooks
        /\ nBuilds < MaxBuilds
        /\ nBuilds' = nBuilds + 1
        /\ args' = a
        /\ sel_modules' = mods
        /\ old_dir' = cwd
        /\ cwd' = chdir_enter(root_dir, cwd)
        /\ log' = IF root_dir # cwd
                  THEN <<LogEntry("debug", Msg("now_in", "", ""))>>
                  ELSE <<>>
        /\ begin' = now
        /\ pc' = "try"
        /\ UNCHANGED <<raised, hooks, dirs, files, func_name, idx, elapsed, status,
                       exc, now, trace, result, hookOps, trVars, dirVars>>

\* lines 262-263 when the directory exists or os.makedirs succeeds.
EnsureBuildDir ==
    /\ pc = "try"
    /\ dirs' = makedirs(build_dir)
    /\ trace' = IF build_dir \in dirs THEN trace
                ELSE Append(trace, <<"makedirs_build", 0>>)
    /\ pc' = "branch"
    /\ UNCHANGED <<raised, hooks, files, args, sel_modules, func_name, idx, old_dir,
                   begin, elapsed, status, exc, now, log, result, nBuilds,
                   hookOps, cwd, trVars, dirVars>>

\* line 263 when os.makedirs raises.
EnsureBuildDirFail ==
    /\ pc = "try"
    /\ build_dir \notin dirs
    /\ exc' = OSError
    /\ raised' = OSError
    /\ pc' = "except"
    /\ UNCHANGED <<hooks, dirs, files, args, sel_modules, func_name, idx,
                   old_dir, begin, elapsed, status, now, log, trace, result,
                   nBuilds, hookOps, cwd, trVars, dirVars>>

\* The read of args.release.value or args.tag.value: a str has no attribute
\* value.
AttributeError ==
    Exc("Exception", <<Msg("text", "'str' object has no attribute 'value'", "")>>)

\* lines 264-281: the branch on release, tag and the flags.
Branch ==
    /\ pc = "branch"
    /\ IF args.release # "none"
       THEN IF args.release = "str"
            THEN /\ exc' = AttributeError
                 /\ raised' = AttributeError
                 /\ pc' = "except"
                 /\ trace' = Append(trace, <<"release_given", 0>>)
                 /\ UNCHANGED <<status, func_name, idx>>
            ELSE /\ trace' = trace \o <<<<"release_given", 0>>,
                                        <<"prepare_release", 0>>>>
                 /\ status' = "successful"
                 /\ pc' = "finally"
                 /\ UNCHANGED <<exc, raised, func_name, idx>>
       ELSE IF args.tag # "none"
       THEN IF args.tag = "str"
            THEN /\ exc' = AttributeError
                 /\ raised' = AttributeError
                 /\ pc' = "except"
                 /\ trace' = Append(trace, <<"tag_given", 0>>)
                 /\ UNCHANGED <<status, func_name, idx>>
            ELSE /\ trace' = trace \o <<<<"tag_given", 0>>, <<"tag", 0>>>>
                 /\ status' = "successful"
                 /\ pc' = "finally"
                 /\ UNCHANGED <<exc, raised, func_name, idx>>
       ELSE /\ func_name' = select_func(args.flags)
            /\ idx' = 1
            /\ pc' = "call"
            /\ trace' = Append(trace, <<"dispatch", 0>>)
            /\ UNCHANGED <<status, exc, raised>>
    /\ args' = IF args.release = "none" /\ args.tag = "none"
               THEN args ELSE NoArgs
    /\ UNCHANGED <<hooks, dirs, files, sel_modules, old_dir, begin, elapsed,
                   now, log, result, nBuilds, hookOps, cwd, trVars, dirVars>>


\* The message of the ModuleException of line 326-327.
MissingHook(m, f) == Msg("missing_hook", m, f)

\* CallNext with a best-effort loop: a module that lacks the hook is skipped
\* and the loop goes on.
CallNext_SkipsMissingHook ==
    /\ pc = "call"
    /\ IF idx > Len(sel_modules)
       THEN /\ status' = "successful"
            /\ pc' = "finally"
            /\ trace' = Append(trace, <<"dispatch_end", 0>>)
            /\ UNCHANGED <<exc, raised, log, hookOps, idx>>
       ELSE IF func_name \notin hooks[sel_modules[idx]]
       THEN /\ idx' = idx + 1
            /\ UNCHANGED <<status, exc, raised, log, hookOps, trace, pc>>
       ELSE /\ log' = Append(log, LogEntry("log",
                                  Msg("call", sel_modules[idx], func_name)))
            /\ trace' = Append(trace, <<"hook_begin", idx>>)
            /\ hookOps' = 0
            /\ pc' = "hook"
            /\ UNCHANGED <<status, exc, raised, idx>>
    /\ args' = NoArgs
    /\ UNCHANGED <<hooks, dirs, files, sel_modules, func_name, old_dir,
                   begin, elapsed, now, result, nBuilds, cwd, trVars, dirVars>>

\* Project._call, one turn of the loop up to the call of the hook
\* (lines 323-330), and the return of _call to line 281 after the last one.
CallNext ==
    /\ pc = "call"
    /\ IF idx > Len(sel_modules)
       THEN /\ status' = "successful"
            /\ pc' = "finally"
            /\ trace' = Append(trace, <<"dispatch_end", 0>>)
            /\ UNCHANGED <<exc, raised, log, hookOps>>
       ELSE IF func_name \notin hooks[sel_modules[idx]]
       THEN /\ exc' = Exc("ModuleException",
                          <<MissingHook(sel_modules[idx], func_name)>>)
            /\ raised' = Exc("ModuleException",
                             <<MissingHook(sel_modules[idx], func_name)>>)
            /\ pc' = "except"
            /\ trace' = Append(trace, <<"missing_hook", idx>>)
            /\ UNCHANGED <<status, log, hookOps>>
       ELSE /\ log' = Append(log, LogEntry("log",
                                  Msg("call", sel_modules[idx], func_name)))
            /\ trace' = Append(trace, <<"hook_begin", idx>>)
            /\ hookOps' = 0
            /\ pc' = "hook"
            /\ UNCHANGED <<status, exc, raised>>
    /\ args' = NoArgs
    /\ UNCHANGED <<hooks, dirs, files, sel_modules, func_name, idx,
                   old_dir, begin, elapsed, now, result, nBuilds, cwd, trVars,
                   dirVars>>

\* The commands a hook runs through project.run.
Commands == {"make"}

\* Where an exception raised in a hook goes: through the finally clauses of
\* the scopes the hook is in, innermost first, and then to the except clauses
\* of build.
after_raise == IF scopes = <<>> THEN "except" ELSE "unwind"

\* A hook calls project.run and the command exits with code 0: command.run
\* logs the command at debug level and returns.  (The lines of the command's
\* output, which the reader threads log, are left to SpecCommand.)
HookRunOk ==
    \E cmd \in Commands :
        /\ pc = "hook"
        /\ hookOps < MaxHookOps
        /\ hookOps' = hookOps + 1
        /\ log' = Append(log, LogEntry("debug", Msg("running", cmd, "")))
        /\ UNCHANGED <<raised, hooks, dirs, files, pc, args, sel_modules, func_name,
                       idx, old_dir, begin, elapsed, status, exc, now, trace,
                       result, nBuilds, cwd, trVars, dirVars>>

\* A hook calls project.run and the command exits with a nonzero code:
\* command.run logs the command and the captured output as an error
\* (lines 46-50) and raises CommandException (lines 51-52), which the hook
\* lets through.
HookRunFail ==
    \E cmd \in Commands :
        /\ pc = "hook"
        /\ hookOps < MaxHookOps
        /\ hookOps' = hookOps + 1
        /\ log' = log \o <<LogEntry("debug", Msg("running", cmd, "")),
                           LogEntry("error", Msg("command_failed", cmd, "output"))>>
        /\ exc' = Exc("CommandException", <<Msg("command_failed", cmd, "")>>)
        /\ raised' = Exc("CommandException", <<Msg("command_failed", cmd, "")>>)
        /\ trace' = Append(trace, <<"hook_raise", idx>>)
        /\ pc' = after_raise
        /\ UNCHANGED <<hooks, dirs, files, args, sel_modules, func_name, idx,
                       old_dir, begin, elapsed, status, now, result, nBuilds,
                       cwd, trVars, dirVars>>

\* A hook raises.
HookRaise ==
    \E e \in HookRaises :
        /\ pc = "hook"
        /\ exc' = e
        /\ raised' = e
        /\ trace' = Append(trace, <<"hook_raise", idx>>)
        /\ pc' = after_raise
        /\ UNCHANGED <<hooks, dirs, files, args, sel_modules, func_name, idx,
                       old_dir, begin, elapsed, status, now, log, result,
                       nBuilds, hookOps, cwd, trVars, dirVars>>

\* A hook returns: the loop of _call goes on to the next module.
HookReturn ==
    /\ pc = "hook"
    /\ scopes = <<>>
    /\ idx' = idx + 1
    /\ trace' = Append(trace, <<"hook_end", idx>>)
    /\ pc' = "call"
    /\ UNCHANGED <<raised, hooks, dirs, files, args, sel_modules, func_name, old_dir,
                   begin, elapsed, status, exc, now, log, result, nBuilds,
                   hookOps, cwd, trVars, dirVars>>

\* Time passes while a hook works.
Tick ==
    /\ pc = "hook"
    /\ now < MaxTime
    /\ now' = now + 1
    /\ UNCHANGED <<raised, hooks, dirs, files, pc, args, sel_modules, func_name, idx,
                   old_dir, begin, elapsed, status, exc, log, trace, result,
                   nBuilds, hookOps, cwd, trVars, dirVars>>

\* The names of the steps a hook records.
ScopeSteps == {"build", "total"}

\* The directories a hook changes into: the root directory (where build
\* already is), the build directory, and the directory of the module, which
\* the project may not have.
ChdirTargets == {root_dir, build_dir, join(root_dir, <<"client">>)}

StepFrame(name, t) ==
    [kind |-> "step", name |-> name, begin |-> t, dir_path |-> <<>>,
     old_dir |-> <<>>]

ChdirFrame(dir_path, old) ==
    [kind |-> "chdir", name |-> "", begin |-> 0, dir_path |-> dir_path,
     old_dir |-> old]

\* The innermost scope, and the scopes around it.
Top == scopes[Len(scopes)]
Pop == SubSeq(scopes, 1, Len(scopes) - 1)

\* Where control is once the finally clause of the innermost scope has run:
\* back in the hook after a normal exit; on the way out, through the next
\* scope or to the except clauses of build, when an exception is in flight.
after_exit ==
    IF pc = "unwind" /\ Len(scopes) = 1 THEN "except" ELSE pc

\* History: the event that the exit of the innermost step scope leaves in
\* the trace, with the duration of the step: a step inside another step
\* overlaps it, an outermost step overlaps no step but those inside it.
step_event ==
    IF \E i \in 1..Len(scopes) - 1 : scopes[i].kind = "step"
    THEN "inner_step" ELSE "step"

\* Project.step, lines 248-250: the scope is entered.
StepEnter ==
    \E name \in ScopeSteps :
        /\ pc = "hook"
        /\ nScopes < MaxScopes
        /\ nScopes' = nScopes + 1
        /\ scopes' = Append(scopes, StepFrame(name, now))
        /\ log' = Append(log, LogEntry("info", Msg("step", name, "")))
        /\ entered' = Append(entered, name)
        /\ UNCHANGED <<exited, raised, hooks, dirs, files, pc, args,
                       sel_modules, func_name, idx, old_dir, begin, elapsed,
                       status, exc, now, trace, result, nBuilds, hookOps, cwd,
                       trVars, dirVars>>

\* StepExit that records the step only when the wrapped work has returned.
StepExit_OnlyOnReturn ==
    /\ pc \in {"hook", "unwind"}
    /\ scopes # <<>>
    /\ Top.kind = "step"
    /\ IF pc = "hook"
       THEN /\ time_report' = TimeReport_add(time_report, Top.name,
                                             now - Top.begin)
            /\ addLog' = Append(addLog, <<Top.name, now - Top.begin>>)
       ELSE UNCHANGED <<time_report, addLog>>
    /\ exited' = Append(exited, Top.name)
    /\ trace' = Append(trace, <<step_event, now - Top.begin>>)
    /\ scopes' = Pop
    /\ pc' = after_exit
    /\ UNCHANGED <<entered, nScopes, raised, hooks, dirs, files, args,
                   sel_modules, func_name, idx, old_dir, begin, elapsed,
                   status, exc, now, log, result, nBuilds, hookOps,
                   cwd, dirVars>>

\* Project.step, lines 252-253: the finally clause, run when the wrapped
\* work returns and when it raises; an exception in flight stays in flight.
StepExit ==
    /\ pc \in {"hook", "unwind"}
    /\ scopes # <<>>
    /\ Top.kind = "step"
    /\ time_report' = TimeReport_add(time_report, Top.name, now - Top.begin)
    /\ addLog' = Append(addLog, <<Top.name, now - Top.begin>>)
    /\ exited' = Append(exited, Top.name)
    /\ trace' = Append(trace, <<step_event, now - Top.begin>>)
    /\ scopes' = Pop
    /\ pc' = after_exit
    /\ UNCHANGED <<entered, nScopes, raised, hooks, dirs, files, args,
                   sel_modules, func_name, idx, old_dir, begin, elapsed,
                   status, exc, now, log, result, nBuilds, hookOps,
                   cwd, dirVars>>

\* Project.chdir, lines 226-229, for a directory that exists.
ChdirEnter ==
    \E dir_path \in ChdirTargets :
        /\ pc = "hook"
        /\ nScopes < MaxScopes
        /\ dir_path \in dirs
        /\ nScopes' = nScopes + 1
        /\ scopes' = Append(scopes, ChdirFrame(dir_path, cwd))
        /\ cwd' = chdir_enter(dir_path, cwd)
        /\ log' = IF dir_path # cwd
                  THEN Append(log, LogEntry("debug", Msg("now_in", "", "")))
                  ELSE log
        /\ UNCHANGED <<entered, exited, raised, hooks, dirs, files, pc, args,
                       sel_modules, func_name, idx, old_dir, begin, elapsed,
                       status, exc, now, trace, result, nBuilds, hookOps,
                       trVars, dirVars>>

\* The error os.chdir raises for a directory that does not exist.
FileNotFoundError ==
    Exc("Exception", <<Msg("errno", "2", ""), Msg("text", "No such file or directory", "")>>)

\* Project.chdir, line 228, for a directory that does not exist: os.chdir
\* raises before the try block of chdir is entered, so no scope is entered
\* and the error goes out through the scopes around.
ChdirEnterFail ==
    \E dir_path \in ChdirTargets :
        /\ pc = "hook"
        /\ nScopes < MaxScopes
        /\ dir_path \notin dirs
        /\ dir_path # cwd
        /\ exc' = FileNotFoundError
        /\ raised' = FileNotFoundError
        /\ trace' = Append(trace, <<"hook_raise", idx>>)
        /\ pc' = after_raise
        /\ UNCHANGED <<scopeVars, hooks, dirs, files, args, sel_modules,
                       func_name, idx, old_dir, begin, elapsed, status, now,
                       log, result, nBuilds, hookOps, cwd, trVars, dirVars>>

\* Project.chdir, lines 232-235: the finally clause, run when the wrapped
\* work returns and when it raises.
ChdirLeave ==
    /\ pc \in {"hook", "unwind"}
    /\ scopes # <<>>
    /\ Top.kind = "chdir"
    /\ cwd' = chdir_exit(Top.dir_path, Top.old_dir, cwd)
    /\ log' = IF Top.dir_path # Top.old_dir
              THEN Append(log, LogEntry("debug", Msg("now_in", "", "")))
              ELSE log
    /\ scopes' = Pop
    /\ pc' = after_exit
    /\ UNCHANGED <<entered, exited, nScopes, raised, hooks, dirs, files, args,
                   sel_modules, func_name, idx, old_dir, begin, elapsed,
                   status, exc, now, trace, result, nBuilds, hookOps, trVars,
                   dirVars>>

\* ex.args[0] of an empty args tuple.
IndexError == Exc("IndexError", <<Msg("text", "tuple index out of range", "")>>)

\* except_clauses without ModuleException in the first clause's tuple and with
\* ModuleException left to the caller (as the handler of builder.run expects).
except_clauses_module_uncaught(e, st, lg) ==
    IF e.type \in Recognized \ {"ModuleException"}
    THEN [status |-> "failed", exc |-> NoExc, log |-> lg]
    ELSE IF IsException(e) /\ e.type # "ModuleException"
    THEN IF e.args = <<>>
         THEN [status |-> st, exc |-> IndexError, log |-> lg]
         ELSE [status |-> "failed", exc |-> NoExc,
               log |-> Append(lg, LogEntry("error", e.args[1]))]
    ELSE [status |-> st, exc |-> e, log |-> lg]

\* The except clauses of build (lines 282-286), for the exception in flight:
\* the status, the exception in flight afterwards and the log afterwards.
except_clauses(e, st, lg) ==
    IF e.type \in Recognized
    THEN [status |-> "failed", exc |-> NoExc, log |-> lg]
    ELSE IF IsException(e)
    THEN IF e.args = <<>>
         THEN [status |-> st, exc |-> IndexError, log |-> lg]
         ELSE [status |-> "failed", exc |-> NoExc,
               log |-> Append(lg, LogEntry("error", e.args[1]))]
    ELSE [status |-> st, exc |-> e, log |-> lg]

Except ==
    /\ pc = "except"
    /\ LET r == except_clauses(exc, status, log) IN
        /\ status' = r.status
        /\ exc' = r.exc
        /\ log' = r.log
    /\ pc' = "finally"
    /\ UNCHANGED <<raised, hooks, dirs, files, args, sel_modules, func_name, idx,
                   old_dir, begin, elapsed, now, trace, result, nBuilds,
                   hookOps, cwd, trVars, dirVars>>

\* FinallyTotal with the start of the interval read in the finally clause
\* itself: 'total' times the finally clause, not the build.
FinallyTotal_TimesFinallyOnly ==
    /\ pc = "finally"
    /\ elapsed' = now - now
    /\ time_report' = TimeReport_add(time_report, "total", now - now)
    /\ addLog' = Append(addLog, <<"total", now - now>>)
    /\ trace' = Append(trace, <<"add_total", 0>>)
    /\ pc' = "report_dir"
    /\ UNCHANGED <<raised, hooks, dirs, files, args, sel_modules, func_name, idx,
                   old_dir, begin, status, exc, now, log, result, nBuilds,
                   hookOps, cwd, dirVars>>

\* The finally clause, lines 289-290.
FinallyTotal ==
    /\ pc = "finally"
    /\ elapsed' = now - begin
    /\ time_report' = TimeReport_add(time_report, "total", now - begin)
    /\ addLog' = Append(addLog, <<"total", now - begin>>)
    /\ trace' = Append(trace, <<"add_total", 0>>)
    /\ pc' = "report_dir"
    /\ UNCHANGED <<raised, hooks, dirs, files, args, sel_modules, func_name, idx,
                   old_dir, begin, status, exc, now, log, result, nBuilds,
                   hookOps, cwd, dirVars>>

\* lines 292-293 when the directory exists or os.makedirs succeeds.
EnsureReportDir ==
    /\ pc = "report_dir"
    /\ dirs' = makedirs(report_dir)
    /\ pc' = "save"
    /\ UNCHANGED <<raised, hooks, files, args, sel_modules, func_name, idx, old_dir,
                   begin, elapsed, status, exc, now, log, trace, result,
                   nBuilds, hookOps, cwd, trVars, dirVars>>

\* finally_raises with the failure swallowed: the exception the finally clause
\* was entered with (if any) stays the one in flight.
finally_raises_swallowed(pending, e) == pending

\* The exception in flight once a statement of the finally clause has raised
\* e: nothing in build catches it, and it replaces the one the finally clause
\* was entered with.
finally_raises(pending, e) == e

\* line 293 when os.makedirs raises: the rest of the finally clause is
\* skipped.
EnsureReportDirFail ==
    /\ pc = "report_dir"
    /\ report_dir \notin dirs
    /\ exc' = finally_raises(exc, OSError)
    /\ trace' = Append(trace, <<"makedirs_report_failed", 0>>)
    /\ pc' = "exit"
    /\ UNCHANGED <<raised, hooks, dirs, files, args, sel_modules, func_name, idx,
                   old_dir, begin, elapsed, status, now, log, result, nBuilds,
                   hookOps, cwd, trVars, dirVars>>

TimesCsv == Append(report_dir, "times.csv")

\* SaveCsv with the report written only after a successful build.
SaveCsv_OnlyOnSuccess ==
    /\ pc = "save"
    /\ IF status = "successful"
       THEN /\ files' = [f \in (DOMAIN files) \cup {TimesCsv} |->
                            IF f = TimesCsv THEN TimeReport_csv(time_report)
                            ELSE files[f]]
            /\ trace' = Append(trace, <<"save", 0>>)
       ELSE UNCHANGED <<files, trace>>
    /\ pc' = "exit"
    /\ UNCHANGED <<raised, hooks, dirs, args, sel_modules, func_name, idx,
                   old_dir, begin, elapsed, status, exc, now, log, result,
                   nBuilds, hookOps, cwd, trVars, dirVars>>

\* line 294: save_csv writes the report.
SaveCsv ==
    /\ pc = "save"
    /\ files' = [f \in (DOMAIN files) \cup {TimesCsv} |->
                    IF f = TimesCsv THEN TimeReport_csv(time_report)
                    ELSE files[f]]
    /\ trace' = Append(trace, <<"save", 0>>)
    /\ pc' = "exit"
    /\ UNCHANGED <<raised, hooks, dirs, args, sel_modules, func_name, idx, old_dir,
                   begin, elapsed, status, exc, now, log, result, nBuilds,
                   hookOps, cwd, trVars, dirVars>>

\* line 294 when open raises.
SaveCsvFail ==
    /\ pc = "save"
    /\ exc' = finally_raises(exc, OSError)
    /\ trace' = Append(trace, <<"save_failed", 0>>)
    /\ pc' = "exit"
    /\ UNCHANGED <<raised, hooks, dirs, files, args, sel_modules, func_name, idx,
                   old_dir, begin, elapsed, status, now, log, result, nBuilds,
                   hookOps, cwd, trVars, dirVars>>

\* The end of the with block of line 259: chdir's finally clause restores
\* the directory, and an exception in flight leaves build.
ChdirExit ==
    /\ pc = "exit"
    /\ cwd' = chdir_exit(root_dir, old_dir, cwd)
    /\ log' = IF root_dir # old_dir
              THEN Append(log, LogEntry("debug", Msg("now_in", "", "")))
              ELSE log
    /\ IF exc # NoExc
       THEN /\ result' = [kind |-> "raised", exc |-> exc]
            /\ pc' = "done"
       ELSE /\ pc' = "status_line"
            /\ UNCHANGED result
    /\ UNCHANGED <<raised, hooks, dirs, files, args, sel_modules, func_name, idx,
                   old_dir, begin, elapsed, status, exc, now, trace, nBuilds,
                   hookOps, trVars, dirVars>>

\* StatusLine with the status of the try block's last statement, whatever
\* the except clauses set.
StatusLine_AlwaysSuccessful ==
    /\ pc = "status_line"
    /\ log' = Append(log, [level |-> "log",
                           msg |-> Msg("status", "successful", ""),
                           duration |-> format_duration(elapsed)])
    /\ result' = [kind |-> "returned", exc |-> NoExc]
    /\ pc' = "done"
    /\ UNCHANGED <<raised, hooks, dirs, files, args, sel_modules, func_name,
                   idx, old_dir, begin, elapsed, status, exc, now, trace,
                   nBuilds, hookOps, cwd, trVars, dirVars>>

\* line 295, and the return of build.
StatusLine ==
    /\ pc = "status_line"
    /\ log' = Append(log, [level |-> "log", msg |-> Msg("status", status, ""),
                           duration |-> format_duration(elapsed)])
    /\ result' = [kind |-> "returned", exc |-> NoExc]
    /\ pc' = "done"
    /\ UNCHANGED <<raised, hooks, dirs, files, args, sel_modules, func_name, idx,
                   old_dir, begin, elapsed, status, exc, now, trace, nBuilds,
                   hookOps, cwd, trVars, dirVars>>

\* The caller has the control back: the locals of the invocation are gone,
\* the Project, its TimeReport, the file system and the clock stay.
BuildReturn ==
    /\ pc = "done"
    /\ pc' = "idle"
    /\ args' = NoArgs
    /\ sel_modules' = <<>>
    /\ func_name' = "none"
    /\ idx' = 0
    /\ old_dir' = <<>>
    /\ begin' = 0
    /\ elapsed' = 0
    /\ status' = "unset"
    /\ exc' = NoExc
    /\ log' = <<>>
    /\ trace' = <<>>
    /\ result' = NoResult
    /\ hookOps' = 0
    /\ raised' = NoExc
    /\ UNCHANGED <<hooks, dirs, files, now, nBuilds, cwd, trVars, dirVars>>

-----------------------------------------------------------------------------
(* command.run and the two AsynchronousFileReader threads.  The child      *)
(* writes UTF-8 text: bytes are numbers, decoded characters are strings.   *)

Streams == {"stdout", "stderr"}

NL == 10

\* The lines a child writes: "a\n", " b\n", and "a" with no newline, which
\* can only be the last line of a stream.
FullLines == {<<97, NL>>, <<32, 98, NL>>}
LastLines == FullLines \cup {<<97>>}

RECURSIVE LinePlans(_)
LinePlans(n) ==
    IF n = 0 THEN {<<>>}
    ELSE LinePlans(n - 1)
         \cup {<<l>> : l \in LastLines}
         \cup {<<l>> \o q : l \in FullLines, q \in LinePlans(n - 1) \ {<<>>}}

\* bytes.decode('utf-8') of ASCII text.
decode_byte(b) ==
    CASE b = NL -> "\n"
      [] b = 32 -> " "
      [] b = 97 -> "a"
      [] b = 98 -> "b"

decode(line) == [i \in 1..Len(line) |-> decode_byte(line[i])]

Whitespace == {" ", "\n"}

\* str.strip
RECURSIVE lstrip(_)
lstrip(t) ==
    IF t # <<>> /\ Head(t) \in Whitespace THEN lstrip(Tail(t)) ELSE t

RECURSIVE rstrip(_)
rstrip(t) ==
    IF t # <<>> /\ t[Len(t)] \in Whitespace
    THEN rstrip(SubSeq(t, 1, Len(t) - 1)) ELSE t

strip(t) == rstrip(lstrip(t))

\* readlines of a binary stream read to end-of-file: the bytes cut after
\* each newline, the rest (if any) being the last line.
RECURSIVE split_lines(_, _, _)
split_lines(bytes, cur, acc) ==
    IF bytes = <<>>
    THEN IF cur = <<>> THEN acc ELSE Append(acc, cur)
    ELSE IF Head(bytes) = NL
         THEN split_lines(Tail(bytes), <<>>, Append(acc, Append(cur, NL)))
         ELSE split_lines(Tail(bytes), Append(cur, Head(bytes)), acc)

\* readlines that loses a last line with no newline.
readlines_drops_unterminated(bytes) ==
    SelectSeq(split_lines(bytes, <<>>, <<>>), LAMBDA l : l[Len(l)] = NL)

readlines(bytes) == split_lines(bytes, <<>>, <<>>)

\* StringIO.write: the text is appended.  The write is one call into the
\* interpreter's C code, made with the interpreter lock held, so the write of
\* the other thread comes before it or after it.
buffer_write(value, text) == value \o text

NewReader == [pc |-> "new", lines |-> <<>>, k |-> 0, line |-> <<>>]

CmdIdle ==
    /\ spawned = 0
    /\ emitted = [s \in Streams |-> 0]
    /\ child = "none"
    /\ pipe = [s \in Streams |-> <<>>]
    /\ eof = [s \in Streams |-> FALSE]
    /\ rd = [s \in Streams |-> NewReader]
    /\ closed = [s \in Streams |-> FALSE]
    /\ buffer = [closed |-> FALSE, value |-> <<>>]
    /\ ppc = "init"
    /\ cexc = NoExc

TheCommand == "make"

\* lines 23-31: the command is logged and spawned, the buffer created.
Popen ==
    /\ ppc = "init"
    /\ log' = Append(log, LogEntry("debug", Msg("running", TheCommand, "")))
    /\ child' = "running"
    /\ spawned' = spawned + 1
    /\ ppc' = "start_stdout"
    /\ UNCHANGED <<closed, plan, emitted, returncode, pipe, eof, rd, buffer, cexc>>

\* lines 27-28 when subprocess.Popen raises (the program is not found or
\* cannot be executed): no child exists, and the error leaves run before its
\* try block is entered.
PopenFail ==
    /\ ppc = "init"
    /\ log' = Append(log, LogEntry("debug", Msg("running", TheCommand, "")))
    /\ cexc' = OSError
    /\ ppc' = "done"
    /\ UNCHANGED <<closed, plan, spawned, emitted, child, returncode, pipe, eof, rd,
                   buffer>>

\* lines 32-33
StartStdout ==
    /\ ppc = "start_stdout"
    /\ rd' = [rd EXCEPT !["stdout"].pc = "run"]
    /\ ppc' = "start_stderr"
    /\ UNCHANGED <<closed, plan, spawned, emitted, child, returncode, pipe, eof, buffer, cexc,
                   log>>

\* lines 34-35
StartStderr ==
    /\ ppc = "start_stderr"
    /\ rd' = [rd EXCEPT !["stderr"].pc = "run"]
    /\ ppc' = "wait"
    /\ UNCHANGED <<closed, plan, spawned, emitted, child, returncode, pipe, eof, buffer, cexc,
                   log>>

\* line 37: process.wait() returns once the child has exited.
Wait ==
    /\ ppc = "wait"
    /\ child = "exited"
    /\ ppc' = "join_stdout"
    /\ UNCHANGED <<closed, plan, spawned, emitted, child, returncode, pipe, eof, rd, buffer,
                   cexc, log>>

\* line 39: join returns once the thread has ended.
JoinStdout ==
    /\ ppc = "join_stdout"
    /\ rd["stdout"].pc = "done"
    /\ ppc' = "join_stderr"
    /\ UNCHANGED <<closed, plan, spawned, emitted, child, returncode, pipe, eof, rd, buffer,
                   cexc, log>>

\* JoinStderr without the join: the parent goes on while the reader thread
\* of stderr may still be running.
JoinStderr_DoesNotWait ==
    /\ ppc = "join_stderr"
    /\ ppc' = "close"
    /\ UNCHANGED <<closed, plan, spawned, emitted, child, returncode, pipe, eof, rd,
                   buffer, cexc, log>>

\* line 40
JoinStderr ==
    /\ ppc = "join_stderr"
    /\ rd["stderr"].pc = "done"
    /\ ppc' = "close"
    /\ UNCHANGED <<closed, plan, spawned, emitted, child, returncode, pipe, eof, rd, buffer,
                   cexc, log>>

\* lines 43-44
CloseStreams ==
    /\ ppc = "close"
    /\ closed' = [s \in Streams |-> TRUE]
    /\ ppc' = "check"
    /\ UNCHANGED <<plan, spawned, emitted, child, returncode, pipe, eof, rd, buffer,
                   cexc, log>>

\* CheckReturncode with a silent failure: a nonzero exit code raises the
\* CommandException and logs nothing.
CheckReturncode_SilentFailure ==
    /\ ppc = "check"
    /\ IF returncode # 0
       THEN /\ cexc' = Exc("CommandException",
                           <<Msg("command_failed", TheCommand, "")>>)
            /\ UNCHANGED log
       ELSE UNCHANGED <<log, cexc>>
    /\ ppc' = "finally"
    /\ UNCHANGED <<closed, plan, spawned, emitted, child, returncode, pipe, eof, rd,
                   buffer>>

\* lines 46-52: the exit code is examined.
CheckReturncode ==
    /\ ppc = "check"
    /\ IF returncode # 0
       THEN /\ log' = Append(log, LogEntry("error",
                                 Msg("command_failed", TheCommand, buffer.value)))
            /\ cexc' = Exc("CommandException",
                           <<Msg("command_failed", TheCommand, "")>>)
       ELSE UNCHANGED <<log, cexc>>
    /\ ppc' = "finally"
    /\ UNCHANGED <<closed, plan, spawned, emitted, child, returncode, pipe, eof, rd, buffer>>

\* line 54, and the end of run.
CloseBuffer ==
    /\ ppc = "finally"
    /\ buffer' = [buffer EXCEPT !.closed = TRUE]
    /\ ppc' = "done"
    /\ UNCHANGED <<closed, plan, spawned, emitted, child, returncode, pipe, eof, rd, cexc, log>>

\* The child writes its next line to a stream.
ChildEmit(s) ==
    /\ child = "running"
    /\ emitted[s] < Len(plan[s])
    /\ pipe' = [pipe EXCEPT ![s] = @ \o plan[s][emitted[s] + 1]]
    /\ emitted' = [emitted EXCEPT ![s] = @ + 1]
    /\ UNCHANGED <<closed, plan, spawned, child, returncode, eof, rd, buffer, ppc, cexc, log>>

\* The child exits, having written all its lines: both streams end.
ChildExit ==
    /\ child = "running"
    /\ \A s \in Streams : emitted[s] = Len(plan[s])
    /\ child' = "exited"
    /\ eof' = [s \in Streams |-> TRUE]
    /\ UNCHANGED <<closed, plan, spawned, emitted, returncode, pipe, rd, buffer, ppc, cexc, log>>

\* line 75: readlines() returns at end-of-file with every line of the stream.
ReaderReadlines(s) ==
    /\ rd[s].pc = "run"
    /\ eof[s]
    /\ LET ls == readlines(pipe[s]) IN
          rd' = [rd EXCEPT ![s] =
                    IF ls = <<>>
                    THEN [pc |-> "done", lines |-> ls, k |-> 0, line |-> <<>>]
                    ELSE [pc |-> "log", lines |-> ls, k |-> 1, line |-> <<>>]]
    /\ pipe' = [pipe EXCEPT ![s] = <<>>]
    /\ UNCHANGED <<closed, plan, spawned, emitted, child, returncode, eof, buffer, ppc, cexc,
                   log>>

\* lines 76-77: the line is decoded and logged, stripped.
ReaderLog(s) ==
    /\ rd[s].pc = "log"
    /\ LET decoded_line == decode(rd[s].lines[rd[s].k]) IN
        /\ log' = Append(log, LogEntry("info", Msg("line", strip(decoded_line), s)))
        /\ rd' = [rd EXCEPT ![s].pc = "write", ![s].line = decoded_line]
    /\ UNCHANGED <<closed, plan, spawned, emitted, child, returncode, pipe, eof, buffer, ppc,
                   cexc>>

\* line 78, and the next turn of the loop.
ReaderWrite(s) ==
    /\ rd[s].pc = "write"
    /\ buffer' = [buffer EXCEPT !.value = buffer_write(@, rd[s].line)]
    /\ rd' = [rd EXCEPT ![s].pc = IF rd[s].k < Len(rd[s].lines)
                                  THEN "log" ELSE "done",
                        ![s].k = @ + 1,
                        ![s].line = <<>>]
    /\ UNCHANGED <<closed, plan, spawned, emitted, child, returncode, pipe, eof, ppc, cexc, log>>

-----------------------------------------------------------------------------
(* Project.__init__ and Project._load_modules.  None, an empty string and  *)
(* an empty list are the falsy values the checks reject: "" stands for     *)
(* None or '', <<>> for None or an empty path.                             *)

\* The modules that importlib.import_module finds on sys.path.
Importable == {"client", "server"}

\* The projectfile argument: None or the imported project definition.
Projectfiles == {"none", "module"}

ProjectNames == {"", "test"}

\* The version argument: None, a string that is no semantic version, and a
\* semantic version.
Versions == {"none", "dev", "0.1.0-dev"}

\* semantic_version.Version(version) raises ValueError unless the string is
\* a semantic version.
IsSemver(v) == v \in {"0.1.0-dev"}

\* The modules argument: whether it is a list, and its items.
ModulesArgs ==
    {[is_list |-> FALSE, items |-> <<>>],
     [is_list |-> TRUE, items |-> <<>>],
     [is_list |-> TRUE, items |-> <<"client">>],
     [is_list |-> TRUE, items |-> <<"client", "main", "server">>]}

CustomArgs == {<<>>, <<"--custom">>}

RootDirs == {<<>>, ProjectDir}

\* The build_dir argument: None, the absolute path load_project passes, a
\* path with a parent reference and a relative path.
BuildDirs ==
    {<<>>, <<"/", "proj", "build">>, <<"/", "proj", "sub", "..", "build">>,
     <<"build">>}

CtorArgs ==
    [projectfile : Projectfiles, name : ProjectNames, version : Versions,
     modules : ModulesArgs, custom_args : CustomArgs, root_dir : RootDirs,
     build_dir : BuildDirs]

NoModules == [m \in {} |-> {}]

\* The attributes of a Project apart from its directories.
NoProject ==
    [kind |-> "none", exc |-> NoExc, name |-> "", version |-> "none",
     modules |-> <<>>, custom_args |-> <<>>]

\* init_checks with the two directories checked first.
init_checks_dirs_first(a) ==
    IF a.root_dir = <<>>
    THEN Exc("ProjectException", <<Msg("Invalid root directory", "", "")>>)
    ELSE IF a.build_dir = <<>>
    THEN Exc("ProjectException", <<Msg("Invalid build directory", "", "")>>)
    ELSE IF a.projectfile = "none"
    THEN Exc("ProjectException", <<Msg("Invalid projectfile", "", "")>>)
    ELSE IF a.name = ""
    THEN Exc("ProjectException", <<Msg("Invalid project name", "", "")>>)
    ELSE IF ~IsSemver(a.version)
    THEN Exc("ProjectException", <<Msg("Invalid version", a.version, "")>>)
    ELSE IF ~a.modules.is_list
    THEN Exc("ProjectException",
             <<Msg("Modules must be defined as a list", "", "")>>)
    ELSE IF a.modules.items = <<>>
    THEN Exc("ProjectException",
             <<Msg("At least one module must be defined", "", "")>>)
    ELSE NoExc

\* derived_dir with the path left as joined.
derived_dir_unresolved(build, leaf) == join(build, <<leaf>>)

\* A directory the constructor derives from the build directory
\* (lines 106-108).
derived_dir(build, leaf) == realpath(join(build, <<leaf>>))

\* The checks of Project.__init__ before the modules are loaded, in the
\* order of the code: the exception of the first one that fails, NoExc when
\* all pass.
init_checks(a) ==
    IF a.projectfile = "none"
    THEN Exc("ProjectException", <<Msg("Invalid projectfile", "", "")>>)
    ELSE IF a.name = ""
    THEN Exc("ProjectException", <<Msg("Invalid project name", "", "")>>)
    ELSE IF ~IsSemver(a.version)
    THEN Exc("ProjectException", <<Msg("Invalid version", a.version, "")>>)
    ELSE IF ~a.modules.is_list
    THEN Exc("ProjectException",
             <<Msg("Modules must be defined as a list", "", "")>>)
    ELSE IF a.modules.items = <<>>
    THEN Exc("ProjectException",
             <<Msg("At least one module must be defined", "", "")>>)
    ELSE IF a.root_dir = <<>>
    THEN Exc("ProjectException", <<Msg("Invalid root directory", "", "")>>)
    ELSE IF a.build_dir = <<>>
    THEN Exc("ProjectException", <<Msg("Invalid build directory", "", "")>>)
    ELSE NoExc

\* Project._load_modules: the modules import_module is called with, in
\* order, up to and including the first one that is not found.
RECURSIVE load_modules(_, _)
load_modules(items, tried) ==
    IF items = <<>> THEN tried
    ELSE IF Head(items) \notin Importable THEN Append(tried, Head(items))
    ELSE load_modules(Tail(items), Append(tried, Head(items)))

\* No Project is being constructed.
CtorIdle ==
    /\ ctor_args = [projectfile |-> "module", name |-> "test",
                    version |-> "0.1.0-dev",
                    modules |-> [is_list |-> TRUE, items |-> <<"client">>],
                    custom_args |-> <<>>, root_dir |-> ProjectDir,
                    build_dir |-> <<"/", "proj", "build">>]
    /\ project = NoProject
    /\ imports = <<>>

\* Project(projectfile, name, version, modules, custom_args, root_dir,
\* build_dir): the whole constructor.
Construct ==
    /\ project.kind = "none"
    /\ LET a == ctor_args
           failed == init_checks(a)
           tried == load_modules(a.modules.items, <<>>)
           last == tried[Len(tried)]
       IN  IF failed # NoExc
           THEN /\ project' = [project EXCEPT !.kind = "raised", !.exc = failed]
                /\ UNCHANGED <<imports, hooks, dirVars, trVars>>
           ELSE /\ root_dir' = a.root_dir
                /\ build_dir' = a.build_dir
                /\ install_dir' = derived_dir(a.build_dir, "release")
                /\ dist_dir' = derived_dir(a.build_dir, "dist")
                /\ report_dir' = derived_dir(a.build_dir, "report")
                /\ imports' = tried
                /\ UNCHANGED lastSet
                /\ hooks' = [m \in {tried[i] : i \in 1..Len(tried)}
                                   \cap Importable |-> HookNames]
                /\ IF last \notin Importable
                   THEN /\ project' =
                              [kind |-> "raised",
                               exc |-> Exc("ProjectException",
                                           <<Msg("Module not found", last, "")>>),
                               name |-> a.name, version |-> a.version,
                               modules |-> <<>>, custom_args |-> a.custom_args]
                        /\ UNCHANGED trVars
                   ELSE /\ project' =
                              [kind |-> "constructed", exc |-> NoExc,
                               name |-> a.name, version |-> a.version,
                               modules |-> a.modules.items,
                               custom_args |-> a.custom_args]
                        /\ time_report' = TimeReport_init
                        /\ UNCHANGED addLog
    /\ UNCHANGED <<ctor_args, cwd>>

-----------------------------------------------------------------------------

(* Specifications *)

vars == <<time_report, addLog, root_dir, build_dir, install_dir, dist_dir,
          report_dir, lastSet, cwd, hooks, dirs, files, pc, args, sel_modules,
          func_name, idx, old_dir, begin, elapsed, status, exc, now, log,
          trace, result, nBuilds, hookOps, raised, plan, emitted, child,
          returncode, pipe, eof, rd, buffer, ppc, spawned, closed, cexc,
          ctor_args, project, imports, scopes, entered, exited, nScopes>>

AllHooks == [m \in Modules |-> HookNames]

NoFiles == [f \in {} |-> 0]

\* The project of the repository's example, loaded by load_project.
DefaultProject ==
    /\ cwd = ProjectDir
    /\ ProjectInit(ProjectDir, load_build_dir(ProjectDir, <<"build">>))

\* No command is run.
NoCommand ==
    /\ plan = [s \in Streams |-> <<>>]
    /\ returncode = 0
    /\ CmdIdle

\* Any sequence of TimeReport.add calls on a new TimeReport.
InitTimeReport ==
    /\ TRInit
    /\ DefaultProject
    /\ hooks = AllHooks
    /\ dirs = {}
    /\ files = NoFiles
    /\ now = 0
    /\ nBuilds = 0
    /\ entered = <<>>
    /\ exited = <<>>
    /\ nScopes = 0
    /\ BuildIdle
    /\ CtorIdle
    /\ NoCommand

NextTimeReport ==
    TRAdd /\ UNCHANGED <<dirVars, cwd, buildVars, cmdVars, ctorVars, scopeVars>>

SpecTimeReport == InitTimeReport /\ [][NextTimeReport]_vars

\* A Project as load_project constructs it, and any sequence of assignments
\* to its directory properties.
InitDirs ==
    /\ TRInit
    /\ cwd = ProjectDir
    /\ \E def \in BuildDirDefs :
          ProjectInit(ProjectDir, load_build_dir(ProjectDir, def))
    /\ hooks = AllHooks
    /\ dirs = {}
    /\ files = NoFiles
    /\ now = 0
    /\ nBuilds = 0
    /\ entered = <<>>
    /\ exited = <<>>
    /\ nScopes = 0
    /\ BuildIdle
    /\ CtorIdle
    /\ NoCommand

NextDirs ==
    \/ SetBuildDir /\ UNCHANGED <<trVars, cwd, buildVars, cmdVars, ctorVars, scopeVars>>
    \/ SetInstallDir /\ UNCHANGED <<trVars, cwd, buildVars, cmdVars, ctorVars, scopeVars>>
    \/ SetDistDir /\ UNCHANGED <<trVars, cwd, buildVars, cmdVars, ctorVars, scopeVars>>

SpecDirs == InitDirs /\ [][NextDirs]_vars

\* A constructed Project, on which build is invoked up to MaxBuilds times.
InitBuild ==
    /\ TRInit
    /\ cwd \in {ProjectDir, <<"/", "home">>}
    /\ ProjectInit(ProjectDir, <<"/", "proj", "build">>)
    /\ hooks = [m \in Modules |-> IF m = "server" THEN {"clean", "package"}
                                   ELSE HookNames]
    /\ dirs \in {{ProjectDir}, makedirs_in({ProjectDir}, build_dir),
                 makedirs_in({ProjectDir}, report_dir)}
    /\ files = NoFiles
    /\ now = 0
    /\ nBuilds = 0
    /\ entered = <<>>
    /\ exited = <<>>
    /\ nScopes = 0
    /\ BuildIdle
    /\ CtorIdle
    /\ NoCommand

\* What an invocation of build leaves alone.
buildFrame == <<cmdVars, ctorVars, scopeVars>>

NextBuild ==
    \/ BuildCall /\ UNCHANGED buildFrame
    \/ EnsureBuildDir /\ UNCHANGED buildFrame
    \/ EnsureBuildDirFail /\ UNCHANGED buildFrame
    \/ Branch /\ UNCHANGED buildFrame
    \/ CallNext /\ UNCHANGED buildFrame
    \/ HookRunOk /\ UNCHANGED buildFrame
    \/ HookRunFail /\ UNCHANGED buildFrame
    \/ HookRaise /\ UNCHANGED buildFrame
    \/ HookReturn /\ UNCHANGED buildFrame
    \/ Tick /\ UNCHANGED buildFrame
    \/ Except /\ UNCHANGED buildFrame
    \/ FinallyTotal /\ UNCHANGED buildFrame
    \/ EnsureReportDir /\ UNCHANGED buildFrame
    \/ EnsureReportDirFail /\ UNCHANGED buildFrame
    \/ SaveCsv /\ UNCHANGED buildFrame
    \/ SaveCsvFail /\ UNCHANGED buildFrame
    \/ ChdirExit /\ UNCHANGED buildFrame
    \/ StatusLine /\ UNCHANGED buildFrame
    \/ BuildReturn /\ UNCHANGED buildFrame

SpecBuild == InitBuild /\ [][NextBuild]_vars

\* Any call of the constructor, from any working directory.
InitConstruct ==
    /\ TRInit
    /\ cwd \in {ProjectDir, <<"/", "home">>}
    /\ root_dir = <<>>
    /\ build_dir = <<>>
    /\ install_dir = <<>>
    /\ dist_dir = <<>>
    /\ report_dir = <<>>
    /\ lastSet = NoAssignment
    /\ hooks = NoModules
    /\ dirs = {}
    /\ files = NoFiles
    /\ now = 0
    /\ nBuilds = 0
    /\ entered = <<>>
    /\ exited = <<>>
    /\ nScopes = 0
    /\ BuildIdle
    /\ NoCommand
    /\ ctor_args \in CtorArgs
    /\ project = NoProject
    /\ imports = <<>>

NextConstruct ==
    Construct /\ UNCHANGED <<files, dirs, pc, args, sel_modules, func_name,
                             idx, old_dir, begin, elapsed, status, exc, now,
                             log, trace, result, nBuilds, hookOps, raised,
                             cmdVars, scopeVars>>

SpecConstruct == InitConstruct /\ [][NextConstruct]_vars

\* The directory bld is started in.
HomeDir == <<"/", "home">>

\* A Project with one module, client, which defines build as the client
\* module of the repository's example does; the hook opens step and chdir
\* scopes, nested or one after the other, and returns or raises (the
\* commands it runs are left to SpecBuild).
InitScopes ==
    /\ TRInit
    /\ cwd = HomeDir
    /\ ProjectInit(ProjectDir, <<"/", "proj", "build">>)
    /\ hooks = [m \in {"client"} |-> {"build"}]
    /\ dirs = {ProjectDir}
    /\ files = NoFiles
    /\ now = 0
    /\ nBuilds = 0
    /\ entered = <<>>
    /\ exited = <<>>
    /\ nScopes = 0
    /\ BuildIdle
    /\ CtorIdle
    /\ NoCommand

\* What a scope of a hook leaves alone.
scopeFrame == <<cmdVars, ctorVars>>

NextScopes ==
    \/ BuildCall /\ UNCHANGED buildFrame
    \/ EnsureBuildDir /\ UNCHANGED buildFrame
    \/ EnsureBuildDirFail /\ UNCHANGED buildFrame
    \/ Branch /\ UNCHANGED buildFrame
    \/ CallNext /\ UNCHANGED buildFrame
    \/ HookRaise /\ UNCHANGED buildFrame
    \/ HookReturn /\ UNCHANGED buildFrame
    \/ Tick /\ UNCHANGED buildFrame
    \/ StepEnter /\ UNCHANGED scopeFrame
    \/ StepExit /\ UNCHANGED scopeFrame
    \/ ChdirEnter /\ UNCHANGED scopeFrame
    \/ ChdirEnterFail /\ UNCHANGED scopeFrame
    \/ ChdirLeave /\ UNCHANGED scopeFrame
    \/ Except /\ UNCHANGED buildFrame
    \/ FinallyTotal /\ UNCHANGED buildFrame
    \/ EnsureReportDir /\ UNCHANGED buildFrame
    \/ EnsureReportDirFail /\ UNCHANGED buildFrame
    \/ SaveCsv /\ UNCHANGED buildFrame
    \/ SaveCsvFail /\ UNCHANGED buildFrame
    \/ ChdirExit /\ UNCHANGED buildFrame
    \/ StatusLine /\ UNCHANGED buildFrame
    \/ BuildReturn /\ UNCHANGED buildFrame

SpecScopes == InitScopes /\ [][NextScopes]_vars

\* One invocation of command.run, for any lines the child writes and any
\* exit code.
InitCommand ==
    /\ TRInit
    /\ DefaultProject
    /\ hooks = AllHooks
    /\ dirs = {}
    /\ files = NoFiles
    /\ now = 0
    /\ nBuilds = 0
    /\ entered = <<>>
    /\ exited = <<>>
    /\ nScopes = 0
    /\ BuildIdle
    /\ CtorIdle
    /\ plan \in [Streams -> LinePlans(MaxLines)]
    /\ returncode \in {0, 1}
    /\ CmdIdle

cmdFrame == <<trVars, dirVars, cwd, hooks, dirs, files, pc, args, sel_modules,
              func_name, idx, old_dir, begin, elapsed, status, exc, now,
              trace, result, nBuilds, hookOps, raised, ctorVars, scopeVars>>

NextCommand ==
    \/ Popen /\ UNCHANGED cmdFrame
    \/ PopenFail /\ UNCHANGED cmdFrame
    \/ StartStdout /\ UNCHANGED cmdFrame
    \/ StartStderr /\ UNCHANGED cmdFrame
    \/ Wait /\ UNCHANGED cmdFrame
    \/ JoinStdout /\ UNCHANGED cmdFrame
    \/ JoinStderr /\ UNCHANGED cmdFrame
    \/ CloseStreams /\ UNCHANGED cmdFrame
    \/ CheckReturncode /\ UNCHANGED cmdFrame
    \/ CloseBuffer /\ UNCHANGED cmdFrame
    \/ ChildExit /\ UNCHANGED cmdFrame
    \/ \E s \in Streams : ChildEmit(s) /\ UNCHANGED cmdFrame
    \/ \E s \in Streams : ReaderReadlines(s) /\ UNCHANGED cmdFrame
    \/ \E s \in Streams : ReaderLog(s) /\ UNCHANGED cmdFrame
    \/ \E s \in Streams : ReaderWrite(s) /\ UNCHANGED cmdFrame

SpecCommand == InitCommand /\ [][NextCommand]_vars

-----------------------------------------------------------------------------
\* command.run with what the scheduling guarantees: the parent and the two
\* reader threads go on whenever they can, and the child writes the lines it
\* has to write.  When the child exits is up to the child.
FairCommand ==
    /\ WF_vars(Popen /\ UNCHANGED cmdFrame)
    /\ WF_vars(StartStdout /\ UNCHANGED cmdFrame)
    /\ WF_vars(StartStderr /\ UNCHANGED cmdFrame)
    /\ WF_vars(Wait /\ UNCHANGED cmdFrame)
    /\ WF_vars(JoinStdout /\ UNCHANGED cmdFrame)
    /\ WF_vars(JoinStderr /\ UNCHANGED cmdFrame)
    /\ WF_vars(CloseStreams /\ UNCHANGED cmdFrame)
    /\ WF_vars(CheckReturncode /\ UNCHANGED cmdFrame)
    /\ WF_vars(CloseBuffer /\ UNCHANGED cmdFrame)
    /\ \A s \in Streams :
          /\ WF_vars(ChildEmit(s) /\ UNCHANGED cmdFrame)
          /\ WF_vars(ReaderReadlines(s) /\ UNCHANGED cmdFrame)
          /\ WF_vars(ReaderLog(s) /\ UNCHANGED cmdFrame)
          /\ WF_vars(ReaderWrite(s) /\ UNCHANGED cmdFrame)

SpecCommandLive == InitCommand /\ [][NextCommand]_vars /\ FairCommand

-----------------------------------------------------------------------------

(* Properties: helpers *)

\* The names of hist (a sequence of <<name, value>>) in the order of their
\* first occurrence.
RECURSIVE FirstSeen(_, _)
FirstSeen(hist, acc) ==
    IF hist = <<>> THEN acc
    ELSE FirstSeen(Tail(hist),
                   IF \E i \in 1..Len(acc) : acc[i] = Head(hist)[1]
                   THEN acc ELSE Append(acc, Head(hist)[1]))

Max(S) == CHOOSE x \in S : \A y \in S : y <= x

\* The value of the most recent add of name in hist.
LastValue(hist, name) ==
    hist[Max({i \in 1..Len(hist) : hist[i][1] = name})][2]

\* The positions of the events named ev in the trace of the invocation.
At(ev) == {i \in 1..Len(trace) : trace[i][1] = ev}

Count(ev) == Cardinality(At(ev))

\* The creation of the report directory or the writing of times.csv failed.
PersistFailed == At("makedirs_report_failed") \cup At("save_failed") # {}

DispatchEvents ==
    {"dispatch", "hook_begin", "hook_end", "hook_raise", "missing_hook",
     "dispatch_end", "prepare_release", "tag"}

\* The positions in the module list of the hooks invoked, in invocation order.
HookBegins ==
    LET F[i \in 0..Len(trace)] ==
            IF i = 0 THEN <<>>
            ELSE IF trace[i][1] = "hook_begin" THEN Append(F[i - 1], trace[i][2])
            ELSE F[i - 1]
    IN  F[Len(trace)]

\* The <<module, hook>> of the calls logged by _call, in order.
LoggedCalls ==
    LET F[i \in 0..Len(log)] ==
            IF i = 0 THEN <<>>
            ELSE IF log[i].msg[1] = "call"
                 THEN Append(F[i - 1], <<log[i].msg[2], log[i].msg[3]>>)
            ELSE F[i - 1]
    IN  F[Len(log)]

\* The positions of the status lines in the log.
StatusLines == {i \in 1..Len(log) : log[i].msg[1] = "status"}

Concat4(a, b, c, d) == a \o b \o c \o d

IsPrefix(x, y) == Len(x) <= Len(y) /\ SubSeq(y, 1, Len(x)) = x

\* buf is the concatenation of an interleaving of the lines xs and ys that
\* keeps the order of each.
RECURSIVE IsMerge(_, _, _)
IsMerge(buf, xs, ys) ==
    IF xs = <<>> /\ ys = <<>> THEN buf = <<>>
    ELSE \/ /\ xs # <<>>
            /\ IsPrefix(Head(xs), buf)
            /\ IsMerge(SubSeq(buf, Len(Head(xs)) + 1, Len(buf)), Tail(xs), ys)
         \/ /\ ys # <<>>
            /\ IsPrefix(Head(ys), buf)
            /\ IsMerge(SubSeq(buf, Len(Head(ys)) + 1, Len(buf)), xs, Tail(ys))

\* The lines the child writes to stream s, decoded.
Written(s) == [i \in 1..Len(plan[s]) |-> decode(plan[s][i])]

-----------------------------------------------------------------------------
(* Properties *)

\* C1 (as claimed; SpecTimeReport): after any sequence of TimeReport.add
\* calls every name is in the ordered name list (the header of the csv)
\* exactly once, at the position of its first add, and the value recorded
\* for it is the value of its most recent add.
C1_OneColumnPerName ==
    /\ TimeReport_csv(time_report).header = FirstSeen(addLog, <<>>)
    /\ \A i \in 1..Len(addLog) :
          time_report.records[addLog[i][1]] = LastValue(addLog, addLog[i][1])

\* C2 (as claimed; SpecDirs): in every state of a Project, after
\* construction and after any assignments to build_dir, install_dir and
\* dist_dir, report_dir is <build_dir>/report.
C2_ReportDirFollowsBuildDir ==
    report_dir = realpath(join(build_dir, <<"report">>))

\* C3 (as claimed; SpecBuild): in every invocation of build, whatever the
\* branch outcome, 'total' is added to the TimeReport and the report is
\* saved exactly once, after the dispatch of the invocation has ended.
C3_SavedExactlyOnce ==
    pc = "done" =>
        /\ Count("add_total") = 1
        /\ Count("save") = 1
        /\ \A i \in 1..Len(trace), j \in At("add_total") \cup At("save") :
              trace[i][1] \in DispatchEvents => i < j

\* C3 (amended; SpecBuild): in every invocation of build, whatever the
\* branch outcome, 'total' is added to the TimeReport exactly once, with the
\* elapsed time of the invocation, after the dispatch has ended; the report
\* is then saved exactly once, with 'total' in it, unless the creation of
\* the report directory or the writing of times.csv fails, in which case it
\* is not saved.
C3_TotalOnceAndSavedUnlessPersistenceFails ==
    pc = "done" =>
        /\ Count("add_total") = 1
        /\ time_report.steps # <<>>
        /\ time_report.steps[Len(time_report.steps)] = "total"
        /\ time_report.records["total"] = elapsed
        /\ Count("save") = (IF PersistFailed THEN 0 ELSE 1)
        /\ \A i \in 1..Len(trace), j \in At("add_total") \cup At("save") :
              trace[i][1] \in DispatchEvents => i < j
        /\ \A i \in At("add_total"), j \in At("save") : i < j
        /\ ~PersistFailed =>
              /\ TimesCsv \in DOMAIN files
              /\ files[TimesCsv] = TimeReport_csv(time_report)

\* C3 witness: a hook raised an error with no message, which no except
\* clause contains, and the report was saved all the same.
C3_Witness ==
    /\ pc = "done"
    /\ raised = Exc("Exception", <<>>)
    /\ Count("hook_raise") = 1
    /\ Count("save") = 1
    /\ result.kind = "raised"

\* C4 (SpecBuild): dispatch invokes the hooks one after the other in the
\* order of the module list, each position at most once, and the hooks
\* invoked are those of the modules before the first module that lacks the
\* hook or whose hook raises, that raising hook included; a missing hook
\* ends dispatch with a ModuleException naming the module and the hook.
C4_DispatchIsFailFastPrefix ==
    LET B == HookBegins
        n == Len(B)
    IN  /\ \A i \in 1..n : B[i] = i
        /\ n <= Len(sel_modules)
        /\ LoggedCalls = [i \in 1..n |-> <<sel_modules[i], func_name>>]
        /\ \A i \in 1..n : func_name \in hooks[sel_modules[i]]
        \* one hook at a time: each hook but the last has returned before
        \* the next one is invoked
        /\ \A i \in At("hook_begin") :
              trace[i][2] > 1 =>
                  i > 1 /\ trace[i - 1] = <<"hook_end", trace[i][2] - 1>>
        /\ Count("hook_end") + Count("hook_raise") <= n
        /\ Count("hook_raise") + Count("missing_hook") + Count("dispatch_end") <= 1
        /\ (pc \notin {"idle", "try", "branch", "call", "hook"}
            /\ Count("dispatch") = 1) =>
              \/ /\ Count("dispatch_end") = 1
                 /\ n = Len(sel_modules)
                 /\ Count("hook_end") = n
                 /\ raised = NoExc
              \/ /\ Count("hook_raise") = 1
                 /\ \A i \in At("hook_raise") : trace[i][2] = n
                 /\ Count("hook_end") = n - 1
                 /\ raised # NoExc
              \/ /\ Count("missing_hook") = 1
                 /\ n < Len(sel_modules)
                 /\ func_name \notin hooks[sel_modules[n + 1]]
                 /\ Count("hook_end") = n
                 /\ raised = Exc("ModuleException",
                                 <<MissingHook(sel_modules[n + 1], func_name)>>)

\* C4 witness: [client, server, tools] with server lacking the hook: the
\* hook of client has run, dispatch has failed at server, tools never ran.
C4_Witness ==
    /\ pc = "done"
    /\ sel_modules = <<"client", "server", "tools">>
    /\ func_name = "build"
    /\ HookBegins = <<1>>
    /\ trace[Len(trace) - 2] = <<"missing_hook", 2>>
    /\ raised.type = "ModuleException"

\* C5 (as claimed; SpecBuild): a ProjectException, ModuleException or
\* CommandException raised during dispatch never leaves build: build
\* returns normally with status 'failed' and the time report is persisted.
C5_RecognizedErrorReturnsFailed ==
    (pc = "done" /\ raised.type \in Recognized) =>
        /\ result.kind = "returned"
        /\ status = "failed"
        /\ Count("save") = 1

\* C5 (amended; SpecBuild): a ProjectException, ModuleException or
\* CommandException raised during dispatch never leaves build and sets the
\* status to 'failed'; build then returns normally with the time report
\* persisted, unless the creation of the report directory or the writing of
\* times.csv fails, in which case that failure (and nothing else) leaves
\* build.
C5_RecognizedErrorIsContained ==
    (pc = "done" /\ raised.type \in Recognized) =>
        /\ status = "failed"
        /\ result.exc.type \notin Recognized
        /\ IF PersistFailed
           THEN result = [kind |-> "raised", exc |-> OSError]
           ELSE /\ result.kind = "returned"
                /\ Count("save") = 1
                /\ TimesCsv \in DOMAIN files

\* C5 witness: a command run by a hook failed, build returned and the
\* report is written.
C5_Witness ==
    /\ pc = "done"
    /\ raised.type = "CommandException"
    /\ result.kind = "returned"
    /\ status = "failed"
    /\ TimesCsv \in DOMAIN files

\* C6 (as claimed; SpecBuild), for the errors derived from Exception and
\* with the report persisted without failure: an error raised in a module
\* hook that is not a Project, Module or Command exception, whatever its
\* payload, is contained by build: its message is logged, the status is
\* 'failed' and no error leaves build.
C6_UnclassifiedErrorIsContained ==
    (/\ pc = "done"
     /\ Count("hook_raise") = 1
     /\ IsException(raised)
     /\ raised.type \notin Recognized
     /\ ~PersistFailed) =>
        /\ result.kind = "returned"
        /\ status = "failed"
        /\ \E i \in 1..Len(log) : log[i].level = "error"

\* C7 (as claimed; SpecBuild): every invocation of build ends with exactly
\* one status line, its last log entry, whichever branch was taken and
\* however the invocation ends.
C7_EveryInvocationEndsWithStatusLine ==
    pc = "done" =>
        /\ Cardinality(StatusLines) = 1
        /\ Len(log) \in StatusLines

\* C7 (amended; SpecBuild): an invocation of build that returns ends with
\* exactly one status line, the last entry it logs, stating the status
\* (successful or failed) and the formatted elapsed time that was recorded as
\* 'total'; an invocation that ends with an error leaving build logs no
\* status line.
C7_StatusLineIffBuildReturns ==
    /\ Cardinality(StatusLines) <= 1
    /\ pc = "done" =>
          IF result.kind = "returned"
          THEN /\ StatusLines = {Len(log)}
               /\ status \in {"successful", "failed"}
               /\ log[Len(log)] =
                     [level |-> "log", msg |-> Msg("status", status, ""),
                      duration |->
                          format_duration(time_report.records["total"])]
               /\ (status = "successful") = (raised = NoExc)
          ELSE /\ result.kind = "raised"
               /\ StatusLines = {}

\* C7 witness: a failed build that returned, its status line last.
C7_Witness ==
    /\ pc = "done"
    /\ result.kind = "returned"
    /\ status = "failed"
    /\ elapsed > 0
    /\ log[Len(log)].msg = Msg("status", "failed", "")

\* C8 (as claimed; SpecBuild): when a build fails, the diagnostics are in
\* the log before the status line: for a failed command an error entry with
\* the command and its captured output, for a missing hook an entry naming
\* the module and the hook.
C8_DiagnosticsBeforeStatusLine ==
    (pc = "done" /\ result.kind = "returned" /\ status = "failed") =>
        /\ raised.type = "CommandException" =>
              \E i \in 1..Len(log) - 1 :
                  /\ log[i].level = "error"
                  /\ log[i].msg = Msg("command_failed", raised.args[1][2], "output")
        /\ Count("missing_hook") = 1 =>
              \E i \in 1..Len(log) - 1 :
                  /\ log[i].msg[2] = raised.args[1][2]
                  /\ log[i].msg[3] = raised.args[1][3]

\* C9 (SpecBuild): a failure of the creation of the report directory or of
\* the writing of times.csv leaves build, on every branch, also when
\* dispatch had failed and the failure been caught; the working directory is
\* the one build was entered in, and no status line is logged.
C9_PersistenceFailurePropagates ==
    (pc = "done" /\ PersistFailed) =>
        /\ result = [kind |-> "raised", exc |-> OSError]
        /\ cwd = old_dir
        /\ StatusLines = {}

\* C9 witness: dispatch failed on a missing hook, which build caught, then
\* times.csv could not be written; build had changed directory.
C9_Witness ==
    /\ pc = "done"
    /\ Count("save_failed") = 1
    /\ raised.type = "ModuleException"
    /\ status = "failed"
    /\ old_dir # root_dir
    /\ cwd = old_dir
    /\ result.kind = "raised"

\* C10 (SpecCommand): whatever lines the child writes to stdout and stderr
\* and however the two reader threads interleave, when run reaches its exit
\* code check the buffer is a merge of the two sequences of lines: every
\* line is there once, whole, and the lines of each stream are in the order
\* they were written.
C10_BufferIsMergeOfStreams ==
    ppc = "check" =>
        IsMerge(buffer.value, Written("stdout"), Written("stderr"))

\* C10 witness: two lines on each stream, alternating in the buffer.
C10_Witness ==
    /\ ppc = "check"
    /\ Len(plan["stdout"]) = 2
    /\ Len(plan["stderr"]) = 2
    /\ plan["stdout"][1] # plan["stderr"][1]
    /\ plan["stdout"][2] = <<97>>
    /\ buffer.value = Concat4(Written("stderr")[1], Written("stdout")[1],
                              Written("stderr")[2], Written("stdout")[2])

\* The entries of the log a command failure is reported with.
ErrorEntries == {i \in 1..Len(log) : log[i].level = "error"}

\* C11 (SpecCommand): run raises CommandException if and only if the child
\* has exited with a nonzero code; the error entry with the command and the
\* whole captured output (a merge of the lines of the two streams) is then
\* the last entry logged, and the exception names the command; on exit code
\* 0 run raises nothing and logs no error; the command is spawned once, and
\* never more than once.
C11_CommandExceptionIffNonzeroExit ==
    /\ spawned <= 1
    /\ cexc.type = "CommandException" =>
          child = "exited" /\ returncode # 0 /\ ppc \in {"finally", "done"}
    /\ (ppc \in {"finally", "done"} /\ child = "exited") =>
          /\ spawned = 1
          /\ IF returncode # 0
             THEN /\ cexc = Exc("CommandException",
                                <<Msg("command_failed", TheCommand, "")>>)
                  /\ ErrorEntries = {Len(log)}
                  /\ log[Len(log)].msg[1] = "command_failed"
                  /\ log[Len(log)].msg[2] = TheCommand
                  /\ IsMerge(log[Len(log)].msg[3],
                             Written("stdout"), Written("stderr"))
             ELSE /\ cexc = NoExc
                  /\ ErrorEntries = {}

\* C11 witness: the child wrote to both streams and exited with code 1; run
\* has ended with the CommandException, the output logged.
C11_Witness ==
    /\ ppc = "done"
    /\ returncode = 1
    /\ cexc.type = "CommandException"
    /\ Len(plan["stdout"]) = 2
    /\ Len(plan["stderr"]) = 1
    /\ log[Len(log)].msg[3] # <<>>
    /\ buffer.closed

\* The checks the constructor is said to make, in the order it is said to
\* make them: whether the argument fails the check, and the error.
ValidationOrder ==
    <<[fails |-> ctor_args.projectfile = "none", error |-> "Invalid projectfile"],
      [fails |-> ctor_args.name = "", error |-> "Invalid project name"],
      [fails |-> ctor_args.version \in {"none", "dev"},
       error |-> "Invalid version"],
      [fails |-> ~ctor_args.modules.is_list,
       error |-> "Modules must be defined as a list"],
      [fails |-> ctor_args.modules.is_list /\ ctor_args.modules.items = <<>>,
       error |-> "At least one module must be defined"],
      [fails |-> ctor_args.root_dir = <<>>, error |-> "Invalid root directory"],
      [fails |-> ctor_args.build_dir = <<>>,
       error |-> "Invalid build directory"]>>

FailedChecks == {i \in 1..Len(ValidationOrder) : ValidationOrder[i].fails}

Min(S) == CHOOSE x \in S : \A y \in S : x <= y

\* The positions of the modules argument that cannot be imported.
Unresolvable ==
    {i \in 1..Len(ctor_args.modules.items) :
        ctor_args.modules.items[i] \notin Importable}

\* C12 (SpecConstruct): whatever arguments are invalid, construction fails
\* with the ProjectException of the first failing check in the order
\* projectfile, name, version, modules is a list, modules not empty, root
\* directory, build directory, and then no module is imported; when every
\* check passes the modules are imported in order up to the first one that
\* is not found, which fails construction with a ProjectException naming it.
C12_FirstFailingCheckWins ==
    project.kind # "none" =>
        IF FailedChecks # {}
        THEN /\ project.kind = "raised"
             /\ project.exc.type = "ProjectException"
             /\ project.exc.args[1][1] =
                    ValidationOrder[Min(FailedChecks)].error
             /\ imports = <<>>
        ELSE IF Unresolvable # {}
        THEN /\ project.kind = "raised"
             /\ project.exc =
                    Exc("ProjectException",
                        <<Msg("Module not found",
                              ctor_args.modules.items[Min(Unresolvable)], "")>>)
             /\ imports = SubSeq(ctor_args.modules.items, 1, Min(Unresolvable))
        ELSE /\ project.kind = "constructed"
             /\ imports = ctor_args.modules.items

\* C12 witness: the name, the version and the build directory are invalid
\* at once, and construction has failed.
C12_Witness ==
    /\ project.kind = "raised"
    /\ FailedChecks = {2, 3, 7}
    /\ project.exc.args[1][1] = "Invalid project name"

\* C12 witness of the second half: every check passed, and the second module
\* of three was not found.
C12_WitnessNotFound ==
    /\ project.kind = "raised"
    /\ FailedChecks = {}
    /\ imports = <<"client", "main">>

\* The arguments are a valid configuration.
ValidConfiguration == FailedChecks = {} /\ Unresolvable = {}

\* The absolute path without "." and ".." of the directory leaf of the
\* directory p, seen from the directory the process is in.
Under(p, leaf) ==
    normparts(<<"/">>, Tail((IF p[1] = "/" THEN p ELSE cwd \o p) \o <<leaf>>))

\* C14 (SpecConstruct): for every valid configuration construction
\* succeeds, and then name, modules, custom_args, root_dir and build_dir are
\* the values passed in and install_dir, dist_dir and report_dir are the
\* directories release, dist and report of the build directory (as absolute
\* paths: for the absolute build directory that load_project passes, the
\* build directory followed by the name).
C14_ValidConfigurationDefaults ==
    (project.kind # "none" /\ ValidConfiguration) =>
        /\ project.kind = "constructed"
        /\ project.name = ctor_args.name
        /\ project.modules = ctor_args.modules.items
        /\ project.custom_args = ctor_args.custom_args
        /\ root_dir = ctor_args.root_dir
        /\ build_dir = ctor_args.build_dir
        /\ install_dir = Under(ctor_args.build_dir, "release")
        /\ dist_dir = Under(ctor_args.build_dir, "dist")
        /\ report_dir = Under(ctor_args.build_dir, "report")
        /\ ctor_args.build_dir = <<"/", "proj", "build">> =>
              /\ install_dir = <<"/", "proj", "build", "release">>
              /\ dist_dir = <<"/", "proj", "build", "dist">>
              /\ report_dir = <<"/", "proj", "build", "report">>
        /\ time_report = TimeReport_init

\* C14 witness: the configuration of the repository's test, constructed.
C14_Witness ==
    /\ project.kind = "constructed"
    /\ project.name = "test"
    /\ project.custom_args = <<"--custom">>
    /\ project.modules = <<"client">>
    /\ build_dir = <<"/", "proj", "build">>
    /\ report_dir = <<"/", "proj", "build", "report">>

\* The absolute path without "." and ".." that the path v names when it is
\* taken relative to the absolute directory b.
Resolve(b, v) ==
    normparts(<<"/">>, Tail(IF v[1] = "/" THEN v ELSE b \o v))

\* C13 (SpecDirs): right after an assignment of a path to install_dir or
\* dist_dir the property is that path resolved against the build directory
\* in force at the assignment (an absolute path is itself, normalised); the
\* assignment leaves the build directory alone, and a relative path without
\* parent references lands under the build directory.
C13_RelativeToCurrentBuildDir ==
    LET assigned == IF lastSet.prop = "install_dir" THEN install_dir
                    ELSE dist_dir
    IN  lastSet.prop \in {"install_dir", "dist_dir"} =>
            /\ lastSet.build = build_dir
            /\ assigned = Resolve(build_dir, lastSet.value)
            /\ lastSet.value \in {<<"out">>, <<"build">>} =>
                  assigned = build_dir \o lastSet.value
            /\ lastSet.value = <<"/", "tmp", "out">> => assigned = lastSet.value

\* C13 witness: build_dir was assigned 'out' and install_dir 'out' after it:
\* install_dir is <root>/out/out.
C13_Witness ==
    /\ lastSet = [prop |-> "install_dir", value |-> <<"out">>,
                  build |-> <<"/", "proj", "out">>]
    /\ build_dir = <<"/", "proj", "out">>
    /\ build_dir # load_build_dir(ProjectDir, <<"build">>)
    /\ install_dir = <<"/", "proj", "out", "out">>

\* How many times x occurs in the sequence q.
Occurrences(q, x) == Cardinality({i \in 1..Len(q) : q[i] = x})

\* The invocations of build that have added their 'total'.
TotalsAdded ==
    IF pc \in {"try", "branch", "call", "hook", "unwind", "except", "finally"}
    THEN nBuilds - 1 ELSE nBuilds

\* The step scopes the hook is in.
OpenSteps == {i \in 1..Len(scopes) : scopes[i].kind = "step"}

\* C15 (SpecScopes): every exit from a step scope, by return or by an
\* error of the wrapped work, adds one record under the name of the step:
\* the TimeReport holds each name once per scope of that name left (and
\* 'total' once more per invocation of build that has added its own); a
\* scope entered is open or has been left once, none is open once the hook
\* is over, and the error that leaves the scopes is the one the wrapped work
\* raised.
C15_StepExitRecordsOnce ==
    /\ \A n \in StepNames :
          Occurrences(time_report.steps, n) =
              Occurrences(exited, n) + (IF n = "total" THEN TotalsAdded ELSE 0)
    /\ Len(entered) = Len(exited) + Cardinality(OpenSteps)
    /\ pc \notin {"hook", "unwind"} => scopes = <<>>
    /\ pc \in {"unwind", "except"} => exc # NoExc /\ exc = raised

\* C15 witness: the work inside a step scope raised a ProjectException; the
\* step is recorded and the exception reached build, which ended 'failed'.
C15_Witness ==
    /\ pc = "done"
    /\ nBuilds = 1
    /\ raised.type = "ProjectException"
    /\ entered = <<"build">>
    /\ exited = <<"build">>
    /\ time_report.steps = <<"build", "total">>
    /\ status = "failed"

\* The directory the process is in inside the scopes q of a hook: the one of
\* the innermost chdir scope, the root directory (where build has gone)
\* when there is none.
RECURSIVE ScopeDir(_)
ScopeDir(q) ==
    IF q = <<>> THEN root_dir
    ELSE IF q[Len(q)].kind = "chdir" THEN q[Len(q)].dir_path
    ELSE ScopeDir(SubSeq(q, 1, Len(q) - 1))

\* C16 (SpecScopes): the working directory is at every moment the one of
\* the innermost scope that is open, so that the exit of a chdir scope, by
\* return or by an error, puts the process back where it was when the scope
\* was entered, however the scopes nest; outside the hooks build is in the
\* root directory, and once build is over, by return or by an error (of the
\* persistence of the report too), in the directory it was called in.
C16_WorkingDirectoryRestored ==
    /\ pc \in {"hook", "unwind"} =>
          /\ cwd = ScopeDir(scopes)
          /\ \A i \in 1..Len(scopes) :
                scopes[i].kind = "chdir" =>
                    scopes[i].old_dir = ScopeDir(SubSeq(scopes, 1, i - 1))
    /\ pc \in {"try", "branch", "call", "except", "finally", "report_dir",
               "save", "exit"} => cwd = root_dir
    /\ pc \in {"status_line", "done"} => cwd = old_dir
    /\ pc \in {"idle", "status_line", "done"} => cwd = HomeDir

\* C16 witness: inside a chdir scope into the build directory a second
\* chdir scope went back to the root directory, an error was raised in it,
\* and the inner scope has been left: the process is in the build directory
\* again.
C16_Witness ==
    /\ pc = "unwind"
    /\ nScopes = 2
    /\ entered = <<>>
    /\ Len(scopes) = 1
    /\ scopes[1].dir_path = build_dir
    /\ hookOps = 0
    /\ Len(log) = 5
    /\ log[4] = LogEntry("debug", Msg("now_in", "", ""))
    /\ cwd = build_dir

\* C19 (as claimed; SpecScopes): when the hooks of the first invocation of
\* build are over, the step names of the TimeReport are the names of the
\* step scopes in the order the scopes were entered, nested scopes included.
C19_StepsInEntryOrder ==
    (nBuilds = 1 /\ pc = "finally") => time_report.steps = entered

\* The report has been, or is about to be, written in this invocation.
Persisting == pc = "save" \/ Count("save") = 1

\* C20 (SpecScopes): when build persists the TimeReport, 'total' is in the
\* ordered name list and is its last entry, with the elapsed time of the
\* invocation as its value, and so it is in the header written to
\* times.csv: in every invocation, the second one on the same Project too,
\* and when a hook has recorded a step named 'total'.
C20_TotalIsLastWhenPersisted ==
    Persisting =>
        /\ time_report.steps # <<>>
        /\ time_report.steps[Len(time_report.steps)] = "total"
        /\ time_report.records["total"] = elapsed
        /\ Count("save") = 1 =>
              LET csv == files[TimesCsv]
              IN  /\ csv.header = time_report.steps
                  /\ csv.header[Len(csv.header)] = "total"
                  /\ csv.row[Len(csv.row)] = elapsed

\* C20 witness: in the first invocation a hook recorded a step named
\* 'total', in the second one a step named 'build'; the second invocation
\* has written the report, whose last column is its own 'total'.
C20_Witness ==
    /\ nBuilds = 2
    /\ Count("save") = 1
    /\ exited = <<"total", "build">>
    /\ time_report.steps = <<"total", "total", "build", "total">>
    /\ files[TimesCsv].header = time_report.steps

\* build has just chosen the hook name and is about to call _call.
JustDispatched ==
    /\ pc = "call"
    /\ trace # <<>>
    /\ trace[Len(trace)] = <<"dispatch", 0>>

\* The flags of args that are set, in the order clean, build, install,
\* package.
FlagOrder == <<"clean", "build", "install", "package">>
FlagsSet ==
    {i \in 1..4 :
        \/ i = 1 /\ args.flags.clean
        \/ i = 2 /\ args.flags.build
        \/ i = 3 /\ args.flags.install
        \/ i = 4 /\ args.flags.package}

\* C17 (SpecBuild): with no release and no tag argument, the hook name
\* build dispatches is the first flag set in the order clean, build,
\* install, package, and 'build' when no flag is set; an invocation
\* dispatches once, and every hook it calls has that one name.
C17_OneHookNameByFlagOrder ==
    /\ JustDispatched =>
          /\ args.release = "none" /\ args.tag = "none"
          /\ func_name = (IF FlagsSet = {} THEN "build"
                          ELSE FlagOrder[Min(FlagsSet)])
    /\ Count("dispatch") <= 1
    /\ \A i \in 1..Len(LoggedCalls) : LoggedCalls[i][2] = func_name
    /\ HookBegins # <<>> => Count("dispatch") = 1 /\ func_name \in HookNames

\* C17 witness: install and package are both set, clean and build are not,
\* and install is the name dispatched.
C17_Witness ==
    /\ JustDispatched
    /\ args.flags = Flags(FALSE, FALSE, TRUE, TRUE)
    /\ func_name = "install"

\* A release or a tag argument was given to this invocation.
ReleaseOrTagGiven == Count("release_given") + Count("tag_given") = 1

\* C18 (as claimed; SpecBuild): when a release argument or a tag argument is
\* given, build calls the release or the tag stub (once), calls no module
\* hook, and ends with status 'successful', the directories of the project
\* being what they were.
C18_ReleaseDelegatesToStub ==
    (pc = "done" /\ ReleaseOrTagGiven /\ ~PersistFailed) =>
        /\ Count("prepare_release") + Count("tag") = 1
        /\ HookBegins = <<>>
        /\ Count("dispatch") = 0
        /\ status = "successful"
        /\ result.kind = "returned"

\* The child has written a whole line (ended by a newline) to stream s, and
\* a reader thread is there to read it.
LineArrived(s) ==
    /\ emitted[s] >= 1
    /\ plan[s][1][Len(plan[s][1])] = NL
    /\ rd[s].pc = "run"

\* A line of stream s has been handed to the logger.
LineLogged(s) ==
    \E i \in 1..Len(log) : log[i].level = "info" /\ log[i].msg[3] = s

\* C21 (as claimed; SpecCommandLive): a line the child has written is logged
\* as it arrives: once a whole line is in a stream and its reader thread
\* runs, the line gets logged, whether or not the child writes more lines
\* or exits.
C21_LineLoggedAsItArrives ==
    \A s \in Streams : LineArrived(s) ~> LineLogged(s)

\* How far the parent has come in command.run.
Position ==
    CASE ppc = "init" -> 0
      [] ppc = "start_stdout" -> 1
      [] ppc = "start_stderr" -> 2
      [] ppc = "wait" -> 3
      [] ppc = "join_stdout" -> 4
      [] ppc = "join_stderr" -> 5
      [] ppc = "close" -> 6
      [] ppc = "check" -> 7
      [] ppc = "finally" -> 8
      [] ppc = "done" -> 9

\* The exit code has been examined: the failure is logged or raised.
Examined ==
    \/ cexc # NoExc
    \/ \E i \in 1..Len(log) : log[i].level = "error"

\* A reader thread writes a line to the buffer in this step.
ReaderWrites ==
    \E s \in Streams : rd[s].pc = "write" /\ rd'[s].pc # "write"

\* What holds at each position of the parent, once a child was spawned.
ParentOrder ==
    IF child = "none"
    THEN /\ ~buffer.closed
         /\ buffer.value = <<>>
         /\ \A s \in Streams : ~closed[s] /\ rd[s].pc = "new"
    ELSE /\ Position >= 4 => child = "exited"
         /\ Position >= 5 => rd["stdout"].pc = "done"
         /\ Position >= 6 => rd["stderr"].pc = "done"
         /\ \A s \in Streams : closed[s] <=> Position >= 7
         /\ Examined => Position >= 8
         /\ buffer.closed <=> Position = 9

\* C22 (SpecCommand): the parent observes the exit of the child, then the end
\* of both reader threads, then closes both stream handles, then examines
\* the exit code and reads the buffer, and closes the buffer last; a reader
\* thread writes to the buffer only before the parent has closed the stream
\* handles, so never after the buffer was read or closed.
C22_ParentStepsOrdered ==
    /\ []ParentOrder
    /\ [][ReaderWrites => Position <= 5 /\ ~buffer.closed /\ ~Examined]_vars

\* C22 witness: a failed command whose two streams each carried lines has
\* been run to the end: the output was read into the error entry, the
\* handles and the buffer are closed, both readers have ended.
C22_Witness ==
    /\ ppc = "done"
    /\ buffer.closed
    /\ \A s \in Streams : closed[s] /\ rd[s].pc = "done" /\ emitted[s] >= 1
    /\ returncode = 1
    /\ \E i \in 1..Len(log) :
          /\ log[i].level = "error"
          /\ log[i].msg[3] = buffer.value
          /\ buffer.value # <<>>

\* The durations of the steps left during this invocation of build: all of
\* them, and those of the outermost steps, which do not overlap each other.
StepDurations(ev) == {trace[i][2] : i \in At(ev)}

SumOf(ev) ==
    LET F[i \in 0..Len(trace)] ==
            IF i = 0 THEN 0
            ELSE IF trace[i][1] = ev THEN F[i - 1] + trace[i][2]
            ELSE F[i - 1]
    IN  F[Len(trace)]

\* The hooks of this invocation that have begun and have returned or raised.
HooksBegun == Count("hook_begin")
HooksEnded == Count("hook_end") + Count("hook_raise")

\* build has read the clock at line 260 and not yet at line 289.
TotalRunning == pc \in {"try", "branch", "call", "hook", "unwind", "except", "finally"}

\* build has recorded its 'total' and has not returned yet.
TotalRecorded == pc \in {"report_dir", "save", "exit", "status_line", "done"}

RestOfProject == <<root_dir, hooks, project, time_report>>

\* C24 (SpecDirs): an assignment to build_dir changes build_dir and nothing
\* else of the project: install_dir, dist_dir, report_dir, root_dir, the
\* modules and the TimeReport keep their values; an assignment to
\* install_dir or to dist_dir changes that one field only.
C24_AssignmentChangesOwnFieldOnly ==
    [][/\ lastSet'.prop = "build_dir" =>
            /\ build_dir' = set_build_dir(lastSet'.value)
            /\ UNCHANGED <<install_dir, dist_dir, report_dir, RestOfProject>>
       /\ lastSet'.prop = "install_dir" =>
            /\ install_dir' = set_install_dir(lastSet'.value)
            /\ UNCHANGED <<build_dir, dist_dir, report_dir, RestOfProject>>
       /\ lastSet'.prop = "dist_dir" =>
            /\ dist_dir' = set_dist_dir(lastSet'.value)
            /\ UNCHANGED <<build_dir, install_dir, report_dir, RestOfProject>>
      ]_vars

\* C24 witness: build_dir was assigned 'out' on a project constructed with
\* the build directory <root>/build: build_dir is <root>/out, and
\* install_dir, dist_dir and report_dir are where the constructor put them.
C24_Witness ==
    /\ lastSet = [prop |-> "build_dir", value |-> <<"out">>,
                  build |-> <<"/", "proj", "build">>]
    /\ build_dir = <<"/", "proj", "out">>
    /\ install_dir = <<"/", "proj", "build", "release">>
    /\ dist_dir = <<"/", "proj", "build", "dist">>
    /\ report_dir = <<"/", "proj", "build", "report">>
    /\ root_dir = ProjectDir

====
